---------------------------- MODULE Spec2Model ----------------------------
(***************************************************************************)
(* State-machine model of the advanced reply engine (src/cmt.py,           *)
(* FacebookAIReplyBot) together with the part of the persistence layer     *)
(* (src/database.py, SupabaseDatabase) it relies on.                       *)
(*                                                                         *)
(* Comment and user identifiers are hex strings in the code; here they are *)
(* natural numbers, 0 standing for the empty string / None (both falsy in  *)
(* the Python conditions that test them).                                  *)
(*                                                                         *)
(* Of the event_log table only the life-cycle events of run() are kept     *)
(* (bot_startup, bot_crash, bot_shutdown); the events reply_to_comment     *)
(* records for each attempt are not part of the state.                     *)
(***************************************************************************)
EXTENDS Naturals, Sequences, FiniteSets, TLC

(***************************************************************************)
(* Configuration (src/config.py get_bot_config) and literals of the code.  *)
(***************************************************************************)
\* MAX_RETRIES: per-comment attempt budget, the default of the loader.
MAX_RETRIES == 3
\* max_queue_size, the literal of add_comments_to_queue.
max_queue_size == 50
\* max_queue_iterations, the literal of run().
max_queue_iterations == 50
\* MAX_ITERATIONS, MAX_REPLIES, MAX_REPLIES_PER_USER are environment-driven;
\* the model runs them at small values so that the caps are reached.
MAX_ITERATIONS == 2
MAX_REPLIES == 1
MAX_REPLIES_PER_USER == 2
\* MAX_REPLIES_PER_WINDOW, RATE_LIMIT_WINDOW (seconds) and the largest
\* COOLDOWN_SECONDS are environment-driven too and small here.
MAX_REPLIES_PER_WINDOW == 2
RATE_LIMIT_WINDOW == 2
MaxCooldown == 2
\* The clock of the store runs from 1 to MaxTime; at most MaxRows rows are
\* written to a table when the store is exercised alone.
MaxTime == 4
MaxRows == 3
\* MAX_CACHE_SIZE and CACHE_CLEANUP_SIZE of constants.py.
MAX_CACHE_SIZE == 100
CACHE_CLEANUP_SIZE == 20
\* Longest comment text, in pieces, given to calculate_comment_priority when
\* it is exercised alone.
MaxPieces == 2
\* Longest timestamp text, in tokens, given to _parse_relative_time when it
\* is exercised alone (the worked examples apart).
MaxTokens == 3
\* Longest text, in characters, and largest max_length given to
\* sanitize_text when it is exercised alone.
MaxTextLen == 4
\* Largest max_retries, initial_delay and backoff_factor given to
\* retry_with_backoff when it is exercised alone.
MaxRetriesArg == 3
MaxDelayArg == 2
MaxFactorArg == 3
\* Number of update_user_stats calls each process makes when the call is
\* followed request by request.
MaxUpserts == 2
\* Longest batch handed to add_comments_to_queue when it is exercised alone.
MaxBatch == 60
\* Number of add_comments_to_queue calls followed when it is exercised alone.
MaxCalls == 2
MaxTicks == 3
MaxDays == 2
MaxScans == 2
MaxIntervalCalls == 2

\* MY_NAME after .strip().lower() (is_own_comment, bot_name_normalized).
bot_name_normalized == "danny nguyen"

\* author.strip().lower() on the author strings the model uses.
Normalize(author) ==
    CASE author = "Danny Nguyen"     -> "danny nguyen"
      [] author = "  DANNY nguyen "  -> "danny nguyen"
      [] author = "Alice"            -> "alice"
      [] author = "Bob"              -> "bob"
      [] author = "Dan"              -> "dan"
      [] OTHER                       -> author

\* len(text.strip()) on the comment texts the model uses.
StrippedLen(text) ==
    CASE text = ""    -> 0
      [] text = "  "  -> 0
      [] text = " k " -> 1
      [] OTHER        -> Len(text)

\* `not comment['text'] or len(comment['text'].strip()) < 2`
TextTrivial(text) == text = "" \/ StrippedLen(text) < 2

(***************************************************************************)
(* The comment elements of the post page, in DOM order.  priority is the   *)
(* value calculate_comment_priority gives the element; reply_button tells  *)
(* whether detection found a reply control for it.                         *)
(***************************************************************************)
PageElems ==
    << [id |-> 1, user_id |-> 1, author |-> "Alice", text |-> "Nice post",
        priority |-> 100, reply_button |-> TRUE],
       [id |-> 2, user_id |-> 1, author |-> "Alice", text |-> "Is it open?",
        priority |-> 175, reply_button |-> TRUE],
       [id |-> 3, user_id |-> 2, author |-> "Bob", text |-> "Hello there",
        priority |-> 115, reply_button |-> FALSE],
       [id |-> 4, user_id |-> 3, author |-> "  DANNY nguyen ", text |-> "Thanks all",
        priority |-> 100, reply_button |-> TRUE],
       [id |-> 5, user_id |-> 0, author |-> "", text |-> " k ",
        priority |-> 100, reply_button |-> TRUE],
       [id |-> 6, user_id |-> 3, author |-> "", text |-> "See my page",
        priority |-> 100, reply_button |-> TRUE],
       [id |-> 7, user_id |-> 3, author |-> "Dan", text |-> "Also mine",
        priority |-> 100, reply_button |-> TRUE] >>

PageIds == {PageElems[i].id : i \in DOMAIN PageElems}
PageUsers == {PageElems[i].user_id : i \in DOMAIN PageElems}

\* The posts the bot can be pointed at, and what get_comment_elements may
\* return at one scan of each: every element of the thread, or only part of
\* it (the rest not expanded yet).  Elements 4, 6 and 7 are comments of the
\* bot's own account: 4 under its name, 6 with no author name found
\* (get_author_name returned None), 7 under another display name.
PostUrls == {"post_a", "post_b"}
PostViews(url) ==
    IF url = "post_a" THEN {{1, 2, 3, 4, 5}, {1, 4, 5}} ELSE {{4, 6, 7}}

VARIABLES
    pc,                    \* position of the single control flow of run()
    run_continuously,      \* config['RUN_CONTINUOUSLY']
    post_url,              \* config['POST_URL']: the post the bot watches
    iteration,             \* run(): iteration
    reply_count,           \* run(): reply_count
    new_comments,          \* run(): new_comments / the batch handed to the queue
    comment_queue,         \* self.comment_queue
    session_processed_ids, \* self.session_processed_ids
    bot_user_id,           \* self.bot_user_id (0 = None)
    queue_iter,            \* run(): queue_iter
    batch_num,             \* process_comment_queue: batch_num
    batch_size,            \* process_comment_queue: batch_size
    processed_any,         \* process_comment_queue: processed_any
    retry_count,           \* reply_to_comment: retry_count
    reply_result,          \* value returned by reply_to_comment
    last_pass,             \* what the last pass of reply_to_comment met
    processed_comments,    \* table processed_comments: id -> statuses, oldest first
    user_stats,            \* table user_stats: user_id -> reply_count (0 = no row)
    last_reply_time,       \* table user_stats: user_id -> last_reply_time (0 = none)
    rate_limit_log,        \* table rate_limit_log: the rows' timestamps, oldest first
    now,                   \* datetime.now(), in seconds
    response_cache,        \* self.response_cache: entries in insertion order
    last_call,             \* the last call of a function exercised alone, with its result
    event_log,             \* table event_log: life-cycle event types recorded
    teardown,              \* what the finally block of run() has carried out,
                           \* and whether the store was reachable then
    idem_unchecked,        \* history: a pass ran with the store's reads failing
    cycle_start,           \* history: store at the start of the iteration, faults since,
                           \* and whether every store call of the run went through
    user_table,            \* table user_stats row by row, for the callers below
    callers                \* update_user_stats calls in progress, one per process

\* the state of update_user_stats followed request by request
upsert_vars == << user_table, callers >>

\* the table without a row; no call in progress
EmptyTable == [user_id_unique |-> FALSE, base |-> 0, rows |-> << >>]
NoCallers == << >>

vars == << pc, run_continuously, post_url, upsert_vars, iteration, reply_count, new_comments,
           comment_queue, session_processed_ids,
           bot_user_id, queue_iter, batch_num, batch_size, processed_any,
           retry_count, reply_result, last_pass, processed_comments,
           user_stats, last_reply_time, rate_limit_log, now, response_cache,
           last_call, event_log, teardown, idem_unchecked, cycle_start >>

\* no function has been called alone
NoCall == [op |-> "none"]


(***************************************************************************)
(* Persistence layer (src/database.py).  `up` tells whether the REST call  *)
(* goes through; when it raises, the method's except branch answers.       *)
(***************************************************************************)
\* variant: no successful reply is ever found
NeverReplied(rows, id, up) == FALSE

has_replied_to_comment(rows, id, up) ==
    up /\ \E i \in DOMAIN rows[id] : rows[id][i] = "success"

\* variant: the answer does not depend on the query going through
ProcessedWhateverUp(rows, id, up) == Len(rows[id]) > 0

is_comment_processed(rows, id, up) ==
    up /\ Len(rows[id]) > 0

\* status of the latest row, "none" for None
get_processed_comment(rows, id, up) ==
    IF up /\ Len(rows[id]) > 0 THEN rows[id][Len(rows[id])] ELSE "none"

add_processed_comment(rows, id, status, up) ==
    IF up THEN [rows EXCEPT ![id] = Append(@, status)] ELSE rows

get_user_reply_count(stats, user_id, up) ==
    IF up /\ user_id \in DOMAIN stats THEN stats[user_id] ELSE 0

update_user_stats(stats, user_id, up) ==
    IF ~up THEN stats
    ELSE IF stats[user_id] > 0
         THEN [stats EXCEPT ![user_id] = @ + 1]
         ELSE [stats EXCEPT ![user_id] = 1]

\* variant: the rate-limit entry is never written
NoRateLimitEntry(log, t, up) == log

\* insert of a row with timestamp t
add_rate_limit_entry(log, t, up) == IF up THEN Append(log, t) ELSE log

\* update_user_stats writes last_reply_time with the count (lines 93-105)
update_last_reply_time(times, user_id, t, up) ==
    IF up THEN [times EXCEPT ![user_id] = t] ELSE times

log_event(log, event_type, up) == IF up THEN log \cup {event_type} ELSE log

\* last_reply_time of the user's row, 0 for None (no row, or the query raised)
get_last_reply_time(times, user_id, up) ==
    IF up /\ user_id \in DOMAIN times THEN times[user_id] ELSE 0

\* rows with timestamp >= now - window_seconds (`gte`, line 120)
RecentRows(log, t, window_seconds) ==
    {i \in DOMAIN log : log[i] + window_seconds >= t}

\* get_recent_reply_count returns `result.count if result.count is not None
\* else 0` (line 121).  The query is select('id') with no count asked for;
\* `counted` tells whether the response carries a count all the same.
get_recent_reply_count(log, t, window_seconds, up, counted) ==
    IF up /\ counted THEN Cardinality(RecentRows(log, t, window_seconds))
    ELSE 0

\* variant: the cleanup reaches back one window only
CleanOneWindow(log, t, window_seconds, up) ==
    IF up
    THEN LET Kept(ts) == ~(ts + window_seconds <= t) IN SelectSeq(log, Kept)
    ELSE log

\* delete of the rows with timestamp <= now - 2 * window_seconds (`lte`,
\* lines 140-141)
clean_old_rate_limit_entries(log, t, window_seconds, up) ==
    IF up
    THEN LET Kept(ts) == ~(ts + 2 * window_seconds <= t)
         IN SelectSeq(log, Kept)
    ELSE log

SuccessRows(rows, id) ==
    Cardinality({i \in DOMAIN rows[id] : rows[id][i] = "success"})

FailedRows(rows, id) ==
    Cardinality({i \in DOMAIN rows[id] : rows[id][i] = "failed"})

(***************************************************************************)
(* Helpers of the engine.                                                  *)
(***************************************************************************)
is_own_comment(author, user_id, bot_id) ==
    IF author = "" THEN FALSE
    ELSE \/ bot_name_normalized # "" /\ Normalize(author) = bot_name_normalized
         \/ bot_id # 0 /\ user_id # 0 /\ user_id = bot_id

is_user_in_queue(queue, user_id) ==
    \/ \E i \in DOMAIN queue.pending : queue.pending[i].user_id = user_id
    \/ \E i \in DOMAIN queue.processing : queue.processing[i].user_id = user_id

is_comment_id_in_queue(queue, comment_id) ==
    \/ \E i \in DOMAIN queue.pending : queue.pending[i].id = comment_id
    \/ \E i \in DOMAIN queue.processing : queue.processing[i].id = comment_id
    \/ \E i \in DOMAIN queue.completed : queue.completed[i] = comment_id
    \/ \E i \in DOMAIN queue.failed : queue.failed[i] = comment_id

\* variant: every user is accepted
AlwaysCanReply(stats, user_id, up) == TRUE

\* can_reply_to_user with COOLDOWN_SECONDS = 0 (the loader's default): only
\* the per-user cap is consulted.
can_reply_to_user(stats, user_id, up) ==
    ~(get_user_reply_count(stats, user_id, up) >= MAX_REPLIES_PER_USER)

\* variant: the cooldown is never looked at
IgnoreCooldown(stats, times, user_id, t, cooldown_seconds, up_count, up_time) ==
    can_reply_to_user(stats, user_id, up_count)

\* can_reply_to_user for any COOLDOWN_SECONDS (1950-1977): the per-user cap,
\* then, for a positive cooldown, the time since last_reply_time; up_count
\* and up_time tell whether the two store queries go through
can_reply_to_user_cooldown(stats, times, user_id, t, cooldown_seconds, up_count, up_time) ==
    IF ~can_reply_to_user(stats, user_id, up_count) THEN FALSE
    ELSE IF cooldown_seconds > 0
      THEN LET last_reply == get_last_reply_time(times, user_id, up_time)
           IN IF last_reply # 0 /\ t < last_reply + cooldown_seconds
              THEN FALSE
              ELSE TRUE
    ELSE TRUE

\* check_rate_limit (1941-1949): TRUE when the reply is allowed
check_rate_limit(log, t, up, counted) ==
    ~(get_recent_reply_count(log, t, RATE_LIMIT_WINDOW, up, counted)
         >= MAX_REPLIES_PER_WINDOW)

\* list.sort(key=priority, reverse=True): stable, so the entries of the
\* highest priority come first in the order they had, then the entries of
\* the next priority, and so on.
RECURSIVE SortFrom(_, _)
SortFrom(comments, priorities) ==
    IF priorities = {} THEN << >>
    ELSE LET top == CHOOSE p \in priorities : \A q \in priorities : q <= p
             HasTop(c) == c.priority = top
         IN SelectSeq(comments, HasTop) \o SortFrom(comments, priorities \ {top})

SortByPriority(comments) ==
    SortFrom(comments, {comments[i].priority : i \in 1..Len(comments)})

(***************************************************************************)
(* add_comments_to_queue (src/cmt.py 1671-1749).                           *)
(***************************************************************************)
\* variant of the batch check: no user counts as seen
NeverSeenUser(user_id, seen_user_ids) == FALSE

\* `if user_id in seen_user_ids` (line 1718)
SeenUserInBatch(user_id, seen_user_ids) == user_id \in seen_user_ids

\* the body of the loop over the batch (lines 1684-1736); acc carries
\* valid_comments, seen_comment_ids, seen_user_ids and self.bot_user_id
FilterStep(acc, c, queue, stats, up) ==
    LET acc1 == [acc EXCEPT !.seen_comment_ids = @ \cup {c.id}]
        acc2 == [acc1 EXCEPT !.seen_user_ids = @ \cup {c.user_id}]
    IN
    IF c.id # 0 /\ is_comment_id_in_queue(queue, c.id) THEN acc
    ELSE IF c.id \in acc.seen_comment_ids THEN acc
    ELSE IF is_own_comment(c.author, c.user_id, acc.bot_user_id)
      THEN [acc1 EXCEPT !.bot_user_id =
                           IF c.user_id # 0 /\ @ = 0 THEN c.user_id ELSE @]
    ELSE IF TextTrivial(c.text) THEN acc1
    ELSE IF c.user_id # 0 /\ is_user_in_queue(queue, c.user_id) THEN acc1
    ELSE IF SeenUserInBatch(c.user_id, acc1.seen_user_ids) THEN acc1
    ELSE IF ~can_reply_to_user(stats, c.user_id, up) THEN acc2
    ELSE [acc2 EXCEPT !.valid = Append(@, c)]

\* `for comment in comments` over comments[lo..hi], left to right
RECURSIVE FilterComments(_, _, _, _, _, _, _)
FilterComments(comments, lo, hi, acc, queue, stats, up) ==
    IF lo > hi THEN acc
    ELSE IF lo = hi THEN FilterStep(acc, comments[lo], queue, stats, up)
    ELSE LET mid == (lo + hi) \div 2
             left == FilterComments(comments, lo, mid, acc, queue, stats, up)
         IN \* the first half of the list is finished before the second starts
            IF Len(left.valid) <= hi
            THEN FilterComments(comments, mid + 1, hi, left, queue, stats, up)
            ELSE left

\* valid_comments and the bot_user_id the loop leaves behind
ValidComments(queue, comments, bot_id, stats, up) ==
    FilterComments(comments, 1, Len(comments),
                   [valid |-> << >>, seen_comment_ids |-> {},
                    seen_user_ids |-> {}, bot_user_id |-> bot_id],
                   queue, stats, up)

\* variant: extend and sort, no truncation
MergeNoTruncate(pending, valid) == SortByPriority(pending \o valid)

\* pending after extend, sort and truncation (lines 1738-1745)
MergePending(pending, valid) ==
    LET merged == SortByPriority(pending \o valid)
    IN IF Len(merged) > max_queue_size
       THEN SubSeq(merged, 1, max_queue_size)
       ELSE merged

\* variant: the whole batch is taken, no filter
AddUnfiltered(queue, comments, bot_id, stats, up) ==
    [queue |-> [queue EXCEPT !.pending = MergePending(@, comments)],
     bot_user_id |-> bot_id]

\* add_comments_to_queue (1671-1749): the new queue and self.bot_user_id
add_comments_to_queue(queue, comments, bot_id, stats, up) ==
    IF comments = << >>
    THEN [queue |-> queue, bot_user_id |-> bot_id]
    ELSE LET acc == ValidComments(queue, comments, bot_id, stats, up)
         IN [queue |-> IF acc.valid # << >>
                       THEN [queue EXCEPT !.pending = MergePending(@, acc.valid)]
                       ELSE queue,
             bot_user_id |-> acc.bot_user_id]

(***************************************************************************)
(* Environment: what the browser does.  Whether the store is reachable is  *)
(* chosen once per scan, per enqueue call and per pass of a reply attempt. *)
(***************************************************************************)
\* what one pass of reply_to_comment's loop can meet on the page
ReplyOutcomes ==
    {"ok", "no_button", "browser_dead", "scroll_closed_recovered",
     "click_closed_recovered", "no_box", "verify_fail", "typing_fail",
     "stay_dialog", "exception"}

NoPass == [cause |-> "none", rd |-> TRUE, wr |-> TRUE, last_attempt |-> FALSE]

EmptyQueue ==
    [pending |-> << >>, processing |-> << >>, completed |-> << >>, failed |-> << >>]

\* where the model lets a KeyboardInterrupt arrive: during a scan, during a
\* reply attempt, during the sleep at the end of an iteration
InterruptPcs == {"detect", "reply", "post"}

\* The store as earlier runs of the bot may have left it: empty, or with
\* comment 2 answered and its author at the per-user cap.
PriorStores ==
    { [processed_comments |-> [id \in PageIds |-> << >>],
       user_stats |-> [u \in PageUsers |-> 0],
       last_reply_time |-> [u \in PageUsers |-> 0],
       rate_limit_log |-> << >>],
      [processed_comments |->
           [id \in PageIds |-> IF id = 2 THEN << "success" >> ELSE << >>],
       user_stats |->
           [u \in PageUsers |-> IF u = 1 THEN MAX_REPLIES_PER_USER ELSE 0],
       last_reply_time |-> [u \in PageUsers |-> IF u = 1 THEN 1 ELSE 0],
       rate_limit_log |-> << 1 >>] }

\* list.remove(x): drops the first element equal to x
RECURSIVE RemoveFirst(_, _)
RemoveFirst(seq, x) ==
    IF seq = << >> THEN << >>
    ELSE IF Head(seq) = x THEN Tail(seq)
    ELSE << Head(seq) >> \o RemoveFirst(Tail(seq), x)

Init ==
    /\ pc = "setup"
    /\ run_continuously \in BOOLEAN
    /\ post_url \in PostUrls
    /\ user_table = EmptyTable
    /\ callers = NoCallers
    /\ iteration = 0
    /\ reply_count = 0
    /\ new_comments = << >>
    /\ comment_queue = EmptyQueue
    /\ session_processed_ids = {}
    /\ bot_user_id = 0
    /\ queue_iter = 0
    /\ batch_num = 0
    /\ batch_size = 0
    /\ processed_any = FALSE
    /\ retry_count = 0
    /\ reply_result = FALSE
    /\ last_pass = NoPass
    /\ \E prior \in PriorStores :
         /\ processed_comments = prior.processed_comments
         /\ user_stats = prior.user_stats
         /\ last_reply_time = prior.last_reply_time
         /\ rate_limit_log = prior.rate_limit_log
         /\ cycle_start = [user_stats |-> prior.user_stats,
                           rate_limit_log |-> prior.rate_limit_log,
                           ok |-> TRUE, store_ok |-> TRUE]
    /\ event_log = {"bot_startup"}
    /\ now = 1
    /\ response_cache = << >>
    /\ last_call = NoCall
    /\ teardown = [browser_closed |-> FALSE, playwright_stopped |-> FALSE,
                   db_closed |-> FALSE, store_up |-> TRUE, exit |-> "none"]
    /\ idem_unchecked = FALSE

queue_vars == << comment_queue, session_processed_ids, bot_user_id >>
drain_vars == << queue_iter, batch_num, batch_size, processed_any >>
reply_vars == << retry_count, reply_result, last_pass >>
store_vars == << processed_comments, user_stats, last_reply_time,
                rate_limit_log, event_log >>
\* the clock does not advance in the model of run(); the reply cache and the
\* record of single calls belong to the functions exercised alone
other_vars == << now, response_cache, last_call >>

(***************************************************************************)
(* run(): the finally block.                                               *)
(***************************************************************************)
TeardownOutcomes == {"ok", "close_raises", "stop_raises"}

\* the finally block (3298-3310): browser.close() and playwright.stop()
\* are called bare, an exception of either leaves the block; `log` is the
\* event log the handlers before it leave behind.  run() then returns (or
\* raises) into main(), the process ends and its in-memory state with it.
\* `exit` records how control came to the block.
Finally(exit, outcome, log, up) ==
    /\ teardown' =
          CASE outcome = "close_raises" ->
                 [teardown EXCEPT !.store_up = up, !.exit = exit]
            [] outcome = "stop_raises" ->
                 [teardown EXCEPT !.browser_closed = TRUE, !.store_up = up,
                                  !.exit = exit]
            [] OTHER -> [browser_closed |-> TRUE, playwright_stopped |-> TRUE,
                         db_closed |-> TRUE, store_up |-> up, exit |-> exit]
    /\ event_log' = IF outcome = "ok" THEN log_event(log, "bot_shutdown", up)
                    ELSE log
    /\ pc' = "done"
    /\ iteration' = 0
    /\ reply_count' = 0
    /\ new_comments' = << >>
    /\ comment_queue' = EmptyQueue
    /\ session_processed_ids' = {}
    /\ bot_user_id' = 0
    /\ queue_iter' = 0
    /\ batch_num' = 0
    /\ batch_size' = 0
    /\ processed_any' = FALSE
    /\ retry_count' = 0
    /\ reply_result' = FALSE
    /\ last_pass' = NoPass
    /\ cycle_start' = [user_stats |-> user_stats,
                       rate_limit_log |-> rate_limit_log, ok |-> FALSE,
                       store_ok |-> cycle_start.store_ok]
    /\ UNCHANGED << run_continuously, post_url, upsert_vars, other_vars, processed_comments, user_stats,
                    last_reply_time, rate_limit_log, idem_unchecked >>

(***************************************************************************)
(* run(): setup_driver and the statements before the loop (3105-3166).     *)
(***************************************************************************)
Setup ==
    /\ pc = "setup"
    /\ \E outcome \in {"ok", "no_page", "no_post_url", "init_error"},
          td \in TeardownOutcomes, up \in BOOLEAN :
         CASE outcome = "ok" ->
                /\ pc' = "loop"
                /\ UNCHANGED << run_continuously, post_url, upsert_vars, other_vars, iteration, reply_count,
                                new_comments, queue_vars, drain_vars, reply_vars,
                                store_vars, teardown, idem_unchecked,
                                cycle_start >>
           [] outcome = "no_page" ->
                \* `if not self.page: return` stands before the try block
                /\ pc' = "no_page"
                /\ UNCHANGED << run_continuously, post_url, upsert_vars, other_vars, iteration, reply_count,
                                new_comments, queue_vars, drain_vars, reply_vars,
                                store_vars, teardown, idem_unchecked,
                                cycle_start >>
           [] outcome = "no_post_url" ->
                \* `return` inside the try block: the finally block runs
                Finally("before_loop", td, event_log, up)
           [] OTHER ->
                \* an exception inside the try block, before the loop
                Finally("before_loop", td,
                        log_event(event_log, "bot_crash", up), up)

\* the loop condition and the reply cap of bounded mode (3168-3171)
LoopContinues ==
    /\ iteration < MAX_ITERATIONS
    /\ ~(~run_continuously /\ reply_count >= MAX_REPLIES)

\* top of an iteration up to the call of smart_comment_detection (3173-3186)
LoopTop ==
    /\ pc = "loop"
    /\ LoopContinues
    /\ iteration' = iteration + 1
    /\ pc' = "detect"
    /\ cycle_start' = [user_stats |-> user_stats,
                       rate_limit_log |-> rate_limit_log, ok |-> TRUE,
                       store_ok |-> cycle_start.store_ok]
    /\ UNCHANGED << run_continuously, post_url, upsert_vars, other_vars, reply_count, new_comments, queue_vars,
                    drain_vars, reply_vars, store_vars, teardown,
                    idem_unchecked >>

(***************************************************************************)
(* smart_comment_detection (935-1089).                                     *)
(***************************************************************************)
\* the store and session checks that make the scan pass over an element
\* (lines 967-987)
AlreadyHandled(e, rows, session, up) ==
    \/ has_replied_to_comment(rows, e.id, up)
    \/ /\ is_comment_processed(rows, e.id, up)
       /\ get_processed_comment(rows, e.id, up) \in {"none", "success"}
    \/ e.id \in session

\* the loop over the comment elements (961-1066); acc carries
\* detected_comments, self.session_processed_ids, self.bot_user_id and the
\* processed_comments table
RECURSIVE ScanElems(_, _, _, _, _)
ScanElems(idx, acc, view, rd, wr) ==
    IF idx > Len(PageElems) THEN acc
    ELSE
      LET e == PageElems[idx]
      IN
      IF idx \notin view \/ AlreadyHandled(e, acc.rows, acc.session, rd)
        THEN ScanElems(idx + 1, acc, view, rd, wr)
      ELSE IF is_own_comment(e.author, e.user_id, acc.bot_user_id)
        THEN ScanElems(idx + 1,
                 [acc EXCEPT
                    !.bot_user_id = IF e.user_id # 0 /\ @ = 0
                                    THEN e.user_id ELSE @,
                    !.session = @ \cup {e.id},
                    !.rows = add_processed_comment(@, e.id, "skipped", wr)],
                 view, rd, wr)
      ELSE IF TextTrivial(e.text)
        THEN ScanElems(idx + 1, acc, view, rd, wr)
      ELSE ScanElems(idx + 1,
                 [acc EXCEPT !.detected = Append(@, e),
                             !.session = @ \cup {e.id}],
                 view, rd, wr)

\* the scan's result: the detected comments sorted by priority (1068), and
\* what the scan leaves in the session set, bot_user_id and the table
smart_comment_detection(view, session, bot_id, rows, rd, wr) ==
    LET acc == ScanElems(1, [detected |-> << >>, session |-> session,
                             bot_user_id |-> bot_id, rows |-> rows],
                         view, rd, wr)
    IN [acc EXCEPT !.detected = SortByPriority(@)]

\* run(): `if new_comments:` decides whether add_comments_to_queue is called
\* (3189-3194)
AfterDetection(comments) == IF comments # << >> THEN "enqueue" ELSE "drain"

\* run() calls smart_comment_detection (3186-3194)
Detect ==
    /\ pc = "detect"
    /\ \E view \in PostViews(post_url), rd \in BOOLEAN, wr \in BOOLEAN :
         LET r == smart_comment_detection(view, session_processed_ids,
                                          bot_user_id, processed_comments,
                                          rd, wr)
         IN /\ new_comments' = r.detected
            /\ session_processed_ids' = r.session
            /\ bot_user_id' = r.bot_user_id
            /\ processed_comments' = r.rows
            /\ cycle_start' = [cycle_start EXCEPT !.ok = @ /\ rd /\ wr,
                                               !.store_ok = @ /\ rd /\ wr]
    /\ pc' = AfterDetection(new_comments')
    /\ queue_iter' = 0
    /\ UNCHANGED << run_continuously, post_url, upsert_vars, other_vars, iteration, reply_count, comment_queue,
                    batch_num, batch_size, processed_any, reply_vars,
                    user_stats, last_reply_time, rate_limit_log, event_log,
                    teardown,
                    idem_unchecked >>

\* the scan fails as a whole before its loop (no page, or an exception in
\* get_comment_elements / smart_expand_comments): it returns [] (937-938,
\* 1087-1089)
DetectFail ==
    /\ pc = "detect"
    /\ new_comments' = << >>
    /\ pc' = AfterDetection(new_comments')
    /\ queue_iter' = 0
    /\ cycle_start' = [cycle_start EXCEPT !.ok = FALSE]
    /\ UNCHANGED << run_continuously, post_url, upsert_vars, other_vars, iteration, reply_count, queue_vars,
                    batch_num, batch_size, processed_any, reply_vars,
                    store_vars, teardown, idem_unchecked >>

\* run() hands the scan's result to add_comments_to_queue (3189-3192)
Enqueue ==
    /\ pc = "enqueue"
    /\ \E up \in BOOLEAN :
         LET r == add_comments_to_queue(comment_queue, new_comments,
                                        bot_user_id, user_stats, up)
         IN /\ comment_queue' = r.queue
            /\ bot_user_id' = r.bot_user_id
            /\ cycle_start' = [cycle_start EXCEPT !.ok = @ /\ up,
                                               !.store_ok = @ /\ up]
    /\ pc' = "drain"
    /\ UNCHANGED << run_continuously, post_url, upsert_vars, other_vars, iteration, reply_count, new_comments,
                    session_processed_ids, drain_vars, reply_vars, store_vars,
                    teardown, idem_unchecked >>

(***************************************************************************)
(* Draining: the queue_iter loop of run() (3196-3223) and                  *)
(* process_comment_queue (1751-1808).                                      *)
(***************************************************************************)
\* variant: one comment per call
OneAtATime(pending) == 1

\* batch_size = len(self.comment_queue['pending']) (1761)
BatchSize(pending) == Len(pending)

\* one round of the queue_iter loop: call process_comment_queue or leave
DrainIter ==
    /\ pc = "drain"
    /\ IF queue_iter < max_queue_iterations /\ comment_queue.pending # << >>
       THEN /\ batch_size' = BatchSize(comment_queue.pending)
            /\ batch_num' = 0
            /\ processed_any' = FALSE
            /\ pc' = "batch"
       ELSE /\ pc' = "post"
            /\ UNCHANGED << batch_size, batch_num, processed_any >>
    /\ UNCHANGED << run_continuously, post_url, upsert_vars, other_vars, iteration, reply_count, new_comments,
                    queue_vars, queue_iter, reply_vars, store_vars, teardown,
                    idem_unchecked, cycle_start >>

\* variant: the last pending comment is taken
PopLast(pending) ==
    [comment |-> pending[Len(pending)],
     rest |-> SubSeq(pending, 1, Len(pending) - 1)]

\* pending.pop(0): the comment taken and what stays pending (1783)
PopPending(pending) == [comment |-> Head(pending), rest |-> Tail(pending)]

\* variant: the loop goes on only when the check allows the reply
OnlyWhenAllowed(rate_ok) == rate_ok

\* what process_comment_queue does with check_rate_limit's answer
\* (1770-1778): a warning is logged when it is False, and the loop goes on
\* to the pop either way
GoesOn(rate_ok) == TRUE

\* the batch loop asks check_rate_limit, takes the next comment and calls
\* reply_to_comment (1768-1792); the answer of the check is kept in last_call
Pop ==
    /\ pc = "batch"
    /\ batch_num < batch_size
    /\ \E up \in BOOLEAN, counted \in BOOLEAN :
         LET rate_ok == check_rate_limit(rate_limit_log, now, up, counted)
         IN /\ GoesOn(rate_ok)
            /\ last_call' = [op |-> "check_rate_limit", result |-> rate_ok]
    /\ comment_queue.pending # << >>
    /\ LET p == PopPending(comment_queue.pending)
       IN comment_queue' = [comment_queue EXCEPT
                               !.pending = p.rest,
                               !.processing = Append(@, p.comment)]
    /\ retry_count' = 0
    /\ pc' = "reply"
    /\ UNCHANGED << run_continuously, post_url, upsert_vars, now, response_cache, iteration, reply_count, new_comments,
                    session_processed_ids, bot_user_id, drain_vars,
                    reply_result, last_pass, store_vars, teardown,
                    idem_unchecked, cycle_start >>

\* the comment reply_to_comment is working on
Current == comment_queue.processing[Len(comment_queue.processing)]

\* back in process_comment_queue after reply_to_comment (1794-1806)
AfterReply ==
    /\ pc = "after_reply"
    /\ LET comment == Current
           q1 == [comment_queue EXCEPT
                     !.processing = RemoveFirst(@, comment)]
       IN IF reply_result
          THEN /\ comment_queue' = [q1 EXCEPT !.completed = Append(@, comment.id)]
               /\ processed_any' = TRUE
          ELSE /\ comment_queue' = [q1 EXCEPT !.failed = Append(@, comment.id)]
               /\ UNCHANGED processed_any
    /\ batch_num' = batch_num + 1
    /\ last_pass' = NoPass
    /\ pc' = "batch"
    /\ UNCHANGED << run_continuously, post_url, upsert_vars, other_vars, iteration, reply_count, new_comments,
                    session_processed_ids, bot_user_id, queue_iter, batch_size,
                    retry_count, reply_result, store_vars, teardown,
                    idem_unchecked, cycle_start >>

\* process_comment_queue returns; run() updates reply_count (1808, 3205-3223)
ProcessReturn ==
    /\ pc = "batch"
    /\ ~(batch_num < batch_size /\ comment_queue.pending # << >>)
    /\ IF processed_any
       THEN /\ reply_count' = Len(comment_queue.completed)
            /\ queue_iter' = queue_iter + 1
            /\ pc' = "drain"
       ELSE IF Len(comment_queue.pending) > 0
       THEN /\ queue_iter' = queue_iter + 1
            /\ pc' = "drain"
            /\ UNCHANGED reply_count
       ELSE /\ pc' = "post"
            /\ UNCHANGED << reply_count, queue_iter >>
    /\ UNCHANGED << run_continuously, post_url, upsert_vars, other_vars, iteration, new_comments, queue_vars,
                    batch_num, batch_size, processed_any, reply_vars,
                    store_vars, teardown, idem_unchecked, cycle_start >>

(***************************************************************************)
(* reply_to_comment (2329-3102), one pass of its while loop per step.      *)
(***************************************************************************)
\* variant: the store checks never stop a pass
NoShortCircuit(rows, id, up) == "go"

\* the two store checks at the top of a pass (2336-2358): "replied" and
\* "processed" return False, "go" lets the pass continue
ShortCircuit(rows, id, up) ==
    IF has_replied_to_comment(rows, id, up) THEN "replied"
    ELSE IF is_comment_processed(rows, id, up)
         THEN IF get_processed_comment(rows, id, up) = "none"
                THEN "processed_unknown"
              ELSE IF get_processed_comment(rows, id, up) = "success"
                THEN "processed"
              ELSE "go"
         ELSE "go"

\* `if retry_count < max_retries - 1` : the pass may be repeated
CanRetry(retries) == retries < MAX_RETRIES - 1

\* outcomes after which the code either retries or gives up on the budget
BudgetOutcomes == {"browser_dead", "no_box", "verify_fail", "stay_dialog",
                   "exception"}

\* rows written when the budget is used up, by cause (2614-2632, 2648-2650,
\* 2679-2681, 3024-3026, 3084-3101, 2408-2409)
GiveUpRows(rows, id, cause, up) ==
    IF cause \in {"no_box", "exception"}
    THEN add_processed_comment(rows, id, "failed", up)
    ELSE rows

\* the pass returns `result`
ReplyReturn(result, cause, rd, wr) ==
    /\ reply_result' = result
    /\ last_pass' = [cause |-> cause, rd |-> rd, wr |-> wr,
                     last_attempt |-> ~CanRetry(retry_count)]
    /\ pc' = "after_reply"
    /\ UNCHANGED retry_count

\* the pass ends with `continue`
ReplyContinue(increment, rd, wr) ==
    /\ retry_count' = IF increment THEN retry_count + 1 ELSE retry_count
    /\ last_pass' = [cause |-> "retry", rd |-> rd, wr |-> TRUE,
                     last_attempt |-> FALSE]
    /\ UNCHANGED << reply_result, pc >>

ReplyPass ==
    /\ pc = "reply"
    /\ retry_count < MAX_RETRIES
    /\ \E outcome \in ReplyOutcomes, rd \in BOOLEAN, wr \in BOOLEAN :
         LET c == Current
             sc == ShortCircuit(processed_comments, c.id, rd)
             own == is_own_comment(c.author, c.user_id, bot_user_id)
             \* lines 2359-2368: a reply button found on the second look is
             \* stored in comment_data
             found == [comment_queue EXCEPT
                          !.processing[Len(comment_queue.processing)].reply_button
                              = TRUE]
         IN
         /\ outcome = "no_button" => ~c.reply_button
         /\ idem_unchecked' = (idem_unchecked \/ ~rd)
         /\ cycle_start' = [cycle_start EXCEPT
                               !.ok = @ /\ rd /\ wr /\ outcome = "ok",
                               !.store_ok = @ /\ rd /\ wr]
         /\ IF sc # "go"
            THEN /\ ReplyReturn(FALSE, sc, rd, wr)
                 /\ UNCHANGED << comment_queue, bot_user_id, processed_comments,
                                 user_stats, last_reply_time,
                                 rate_limit_log >>
            ELSE IF outcome = "no_button"
            THEN /\ ReplyReturn(FALSE, outcome, rd, wr)
                 /\ UNCHANGED << comment_queue, bot_user_id, processed_comments,
                                 user_stats, last_reply_time,
                                 rate_limit_log >>
            ELSE IF own
            THEN /\ bot_user_id' = IF c.user_id # 0 /\ bot_user_id = 0
                                   THEN c.user_id ELSE bot_user_id
                 /\ processed_comments' =
                        add_processed_comment(processed_comments, c.id,
                                              "skipped", wr)
                 /\ comment_queue' = found
                 /\ ReplyReturn(FALSE, "own", rd, wr)
                 /\ UNCHANGED << user_stats, last_reply_time,
                                 rate_limit_log >>
            ELSE IF outcome = "ok"
            THEN \* lines 3028-3064
                 /\ processed_comments' =
                        add_processed_comment(processed_comments, c.id,
                                              "success", wr)
                 /\ user_stats' = update_user_stats(user_stats, c.user_id, wr)
                 /\ last_reply_time' =
                        update_last_reply_time(last_reply_time, c.user_id,
                                               now, wr)
                 /\ rate_limit_log' =
                        add_rate_limit_entry(rate_limit_log, now, wr)
                 /\ comment_queue' = found
                 /\ ReplyReturn(TRUE, outcome, rd, wr)
                 /\ UNCHANGED bot_user_id
            ELSE IF outcome = "scroll_closed_recovered"
            THEN \* line 2429: the id goes to failed from inside the attempt
                 /\ comment_queue' = [found EXCEPT !.failed = Append(@, c.id)]
                 /\ ReplyReturn(FALSE, outcome, rd, wr)
                 /\ UNCHANGED << bot_user_id, processed_comments, user_stats,
                                 last_reply_time, rate_limit_log >>
            ELSE IF outcome = "typing_fail"
            THEN \* lines 2822-2848
                 /\ comment_queue' = found
                 /\ ReplyReturn(FALSE, outcome, rd, wr)
                 /\ UNCHANGED << bot_user_id, processed_comments, user_stats,
                                 last_reply_time, rate_limit_log >>
            ELSE IF outcome = "click_closed_recovered"
            THEN \* lines 2489 and 2502: `continue` with retry_count untouched
                 /\ comment_queue' = found
                 /\ ReplyContinue(FALSE, rd, wr)
                 /\ UNCHANGED << bot_user_id, processed_comments, user_stats,
                                 last_reply_time, rate_limit_log >>
            ELSE \* outcome \in BudgetOutcomes
                 /\ comment_queue' = found
                 /\ IF CanRetry(retry_count)
                    THEN /\ ReplyContinue(TRUE, rd, wr)
                         /\ UNCHANGED processed_comments
                    ELSE /\ processed_comments' =
                                GiveUpRows(processed_comments, c.id, outcome, wr)
                         /\ ReplyReturn(FALSE, outcome, rd, wr)
                 /\ UNCHANGED << bot_user_id, user_stats, last_reply_time,
                                 rate_limit_log >>
    /\ UNCHANGED << run_continuously, post_url, upsert_vars, other_vars, iteration, reply_count, new_comments,
                    session_processed_ids, drain_vars, event_log, teardown >>

(***************************************************************************)
(* run(): the rest of an iteration, the exception handlers and the finally *)
(* block (3225-3310).                                                      *)
(***************************************************************************)
\* leaving the loop by its condition or by `break`: final statistics, then
\* the finally block (3168-3171, 3252-3281, 3298-3310)
LoopExit ==
    /\ pc = "loop"
    /\ ~LoopContinues
    /\ \E outcome \in TeardownOutcomes, up \in BOOLEAN :
         Finally("loop_end", outcome, event_log, up)

\* simulate_human_activity, the periodic reload: unguarded page calls that
\* may raise into run()'s `except Exception` (3225-3250, 3289-3296)
PostDrain ==
    /\ pc = "post"
    /\ pc' = "loop"
    /\ UNCHANGED << run_continuously, post_url, upsert_vars, other_vars, iteration, reply_count, new_comments,
                    queue_vars, drain_vars, reply_vars, store_vars, teardown,
                    idem_unchecked, cycle_start >>

Crash ==
    /\ pc = "post"
    /\ \E outcome \in TeardownOutcomes, up \in BOOLEAN :
         Finally("exception", outcome,
                 log_event(event_log, "bot_crash", up), up)

\* KeyboardInterrupt in the loop: `except KeyboardInterrupt` only
\* logs to the console (3282-3287), then the finally block
Interrupt ==
    /\ pc \in InterruptPcs
    /\ \E outcome \in TeardownOutcomes, up \in BOOLEAN :
         Finally("keyboard_interrupt", outcome, event_log, up)

Next ==
    \/ Setup
    \/ LoopTop
    \/ LoopExit
    \/ Detect
    \/ DetectFail
    \/ Enqueue
    \/ DrainIter
    \/ Pop
    \/ ReplyPass
    \/ AfterReply
    \/ ProcessReturn
    \/ PostDrain
    \/ Crash
    \/ Interrupt

Spec == Init /\ [][Next]_vars

(***************************************************************************)
(* add_comments_to_queue exercised alone: a caller hands it batches in any *)
(* order, against a queue other calls have filled; between two calls the   *)
(* head of pending may be taken for processing.                            *)
(***************************************************************************)
\* detected comments of the page in an order the caller chooses
SmallBatches ==
    { << PageElems[1], PageElems[2] >>,
      << PageElems[2], PageElems[1] >>,
      << PageElems[2], PageElems[3], PageElems[1] >>,
      << PageElems[3], PageElems[4], PageElems[5] >> }

\* n acceptable comments of n different users, not sorted, with ties; the
\* identifiers differ from call to call
ManyComments(n, call) ==
    [i \in 1..n |->
        [id |-> 1000 * call + i, user_id |-> 1000 * call + i,
         author |-> "Alice", text |-> "Nice post",
         priority |-> 100 + 5 * ((7 * i + 3 * call) % 13),
         reply_button |-> TRUE]]

BatchesAt(call) ==
    SmallBatches \cup
    { ManyComments(n, call) : n \in {max_queue_size, MaxBatch} }

InitQueue ==
    /\ pc = "caller"
    /\ run_continuously = TRUE
    /\ post_url = "post_a"
    /\ user_table = EmptyTable
    /\ callers = NoCallers
    /\ iteration = 0
    /\ reply_count = 0
    /\ new_comments = << >>
    /\ comment_queue = EmptyQueue
    /\ session_processed_ids = {}
    /\ bot_user_id = 0
    /\ queue_iter = 0
    /\ batch_num = 0
    /\ batch_size = 0
    /\ processed_any = FALSE
    /\ retry_count = 0
    /\ reply_result = FALSE
    /\ last_pass = NoPass
    /\ processed_comments = [id \in PageIds |-> << >>]
    /\ user_stats = [u \in PageUsers |-> 0]
    /\ last_reply_time = [u \in PageUsers |-> 0]
    /\ rate_limit_log = << >>
    /\ cycle_start = [user_stats |-> [u \in PageUsers |-> 0],
                      rate_limit_log |-> << >>, ok |-> TRUE, store_ok |-> TRUE]
    /\ event_log = {"bot_startup"}
    /\ now = 1
    /\ response_cache = << >>
    /\ last_call = NoCall
    /\ teardown = [browser_closed |-> FALSE, playwright_stopped |-> FALSE,
                   db_closed |-> FALSE, store_up |-> TRUE, exit |-> "none"]
    /\ idem_unchecked = FALSE

\* the caller picks the batch of its next call
CallerBatch ==
    /\ pc = "caller"
    /\ iteration < MaxCalls
    /\ iteration' = iteration + 1
    /\ new_comments' \in BatchesAt(iteration')
    /\ new_comments' # << >>
    /\ pc' = "enqueue"
    /\ UNCHANGED << run_continuously, post_url, upsert_vars, other_vars, reply_count, queue_vars, drain_vars,
                    reply_vars, store_vars, teardown, idem_unchecked,
                    cycle_start >>

\* after the call: the head of pending is taken for processing (1783-1784)
CallerTake ==
    /\ pc = "drain"
    /\ comment_queue.pending # << >>
    /\ comment_queue.processing = << >>
    /\ LET p == PopPending(comment_queue.pending)
       IN comment_queue' = [comment_queue EXCEPT
                               !.pending = p.rest,
                               !.processing = Append(@, p.comment)]
    /\ pc' = "caller"
    /\ UNCHANGED << run_continuously, post_url, upsert_vars, other_vars, iteration, reply_count, new_comments,
                    session_processed_ids, bot_user_id, drain_vars, reply_vars,
                    store_vars, teardown, idem_unchecked, cycle_start >>

\* after the call: nothing is taken
CallerSkip ==
    /\ pc = "drain"
    /\ pc' = "caller"
    /\ UNCHANGED << run_continuously, post_url, upsert_vars, other_vars, iteration, reply_count, new_comments,
                    queue_vars, drain_vars, reply_vars, store_vars, teardown,
                    idem_unchecked, cycle_start >>

NextQueue ==
    \/ CallerBatch
    \/ Enqueue
    \/ CallerTake
    \/ CallerSkip

SpecQueue == InitQueue /\ [][NextQueue]_vars

(***************************************************************************)
(* The persistence layer exercised alone (src/database.py) together with   *)
(* check_rate_limit: a caller makes any of the calls in any order, the     *)
(* store being reachable or not at each call, while time passes.           *)
(***************************************************************************)
\* the comment and the user the calls are about
StoreId == 1
StoreUser == 1
Windows == 0..RATE_LIMIT_WINDOW

ReadOps == {"is_comment_processed", "has_replied_to_comment",
            "get_user_reply_count", "get_recent_reply_count"}
WriteOps == {"add_processed_comment", "update_user_stats",
             "add_rate_limit_entry", "log_event",
             "clean_old_rate_limit_entries"}

\* the record kept of a call: every method returns, none raises (each body
\* is one try block with `except Exception`)
Called(op, window_seconds, up, counted, result) ==
    [op |-> op, window |-> window_seconds, up |-> up, counted |-> counted,
     result |-> result]

InitStore ==
    /\ pc = "store"
    /\ run_continuously = TRUE
    /\ post_url = "post_a"
    /\ user_table = EmptyTable
    /\ callers = NoCallers
    /\ iteration = 0
    /\ reply_count = 0
    /\ new_comments = << >>
    /\ comment_queue = EmptyQueue
    /\ session_processed_ids = {}
    /\ bot_user_id = 0
    /\ queue_iter = 0
    /\ batch_num = 0
    /\ batch_size = 0
    /\ processed_any = FALSE
    /\ retry_count = 0
    /\ reply_result = FALSE
    /\ last_pass = NoPass
    /\ processed_comments = [id \in PageIds |-> << >>]
    /\ user_stats = [u \in PageUsers |-> 0]
    /\ last_reply_time = [u \in PageUsers |-> 0]
    /\ rate_limit_log = << >>
    /\ cycle_start = [user_stats |-> [u \in PageUsers |-> 0],
                      rate_limit_log |-> << >>, ok |-> TRUE, store_ok |-> TRUE]
    /\ event_log = {"bot_startup"}
    /\ now = 1
    /\ response_cache = << >>
    /\ last_call = NoCall
    /\ teardown = [browser_closed |-> FALSE, playwright_stopped |-> FALSE,
                   db_closed |-> FALSE, store_up |-> TRUE, exit |-> "none"]
    /\ idem_unchecked = FALSE

\* what no call of the store changes
engine_vars == << pc, run_continuously, post_url, upsert_vars, iteration, reply_count,
                 new_comments, comment_queue, session_processed_ids,
                 bot_user_id, drain_vars, reply_vars, response_cache,
                 teardown, idem_unchecked, cycle_start >>

\* a second passes
StoreTick ==
    /\ pc = "store"
    /\ now < MaxTime
    /\ now' = now + 1
    /\ last_call' = NoCall
    /\ UNCHANGED << engine_vars, store_vars >>

IsCommentProcessedCall ==
    /\ pc = "store"
    /\ \E up \in BOOLEAN :
         last_call' = Called("is_comment_processed", 0, up, TRUE,
                        is_comment_processed(processed_comments, StoreId, up))
    /\ UNCHANGED << engine_vars, store_vars, now >>

HasRepliedCall ==
    /\ pc = "store"
    /\ \E up \in BOOLEAN :
         last_call' = Called("has_replied_to_comment", 0, up, TRUE,
                        has_replied_to_comment(processed_comments, StoreId, up))
    /\ UNCHANGED << engine_vars, store_vars, now >>

GetUserReplyCountCall ==
    /\ pc = "store"
    /\ \E up \in BOOLEAN :
         last_call' = Called("get_user_reply_count", 0, up, TRUE,
                        get_user_reply_count(user_stats, StoreUser, up))
    /\ UNCHANGED << engine_vars, store_vars, now >>

GetRecentReplyCountCall ==
    /\ pc = "store"
    /\ \E w \in Windows, up \in BOOLEAN, counted \in BOOLEAN :
         last_call' = Called("get_recent_reply_count", w, up, counted,
                        get_recent_reply_count(rate_limit_log, now, w, up,
                                               counted))
    /\ UNCHANGED << engine_vars, store_vars, now >>

CheckRateLimitCall ==
    /\ pc = "store"
    /\ \E up \in BOOLEAN, counted \in BOOLEAN :
         last_call' = Called("check_rate_limit", RATE_LIMIT_WINDOW, up, counted,
                        check_rate_limit(rate_limit_log, now, up, counted))
    /\ UNCHANGED << engine_vars, store_vars, now >>

AddProcessedCommentCall ==
    /\ pc = "store"
    /\ Len(processed_comments[StoreId]) < 1
    /\ \E status \in {"success", "failed"}, up \in BOOLEAN :
         /\ processed_comments' =
               add_processed_comment(processed_comments, StoreId, status, up)
         /\ last_call' = Called("add_processed_comment", 0, up, TRUE, "returned")
    /\ UNCHANGED << engine_vars, user_stats, last_reply_time, rate_limit_log,
                    event_log, now >>

UpdateUserStatsCall ==
    /\ pc = "store"
    /\ user_stats[StoreUser] < MAX_REPLIES_PER_USER
    /\ \E up \in BOOLEAN :
         /\ user_stats' = update_user_stats(user_stats, StoreUser, up)
         /\ last_reply_time' =
               update_last_reply_time(last_reply_time, StoreUser, now, up)
         /\ last_call' = Called("update_user_stats", 0, up, TRUE, "returned")
    /\ UNCHANGED << engine_vars, processed_comments, rate_limit_log,
                    event_log, now >>

AddRateLimitEntryCall ==
    /\ pc = "store"
    /\ Len(rate_limit_log) < MaxRows
    /\ \E up \in BOOLEAN :
         /\ rate_limit_log' = add_rate_limit_entry(rate_limit_log, now, up)
         /\ last_call' = Called("add_rate_limit_entry", 0, up, TRUE, "returned")
    /\ UNCHANGED << engine_vars, processed_comments, user_stats,
                    last_reply_time, event_log, now >>

LogEventCall ==
    /\ pc = "store"
    /\ \E up \in BOOLEAN :
         /\ event_log' = log_event(event_log, "bot_crash", up)
         /\ last_call' = Called("log_event", 0, up, TRUE, "returned")
    /\ UNCHANGED << engine_vars, processed_comments, user_stats,
                    last_reply_time, rate_limit_log, now >>

CleanOldCall ==
    /\ pc = "store"
    /\ \E w \in Windows, up \in BOOLEAN :
         /\ rate_limit_log' =
               clean_old_rate_limit_entries(rate_limit_log, now, w, up)
         /\ last_call' =
               [op |-> "clean_old_rate_limit_entries", window |-> w,
                up |-> up, counted |-> TRUE, result |-> "returned",
                deleted |-> Len(rate_limit_log)
                            - Len(clean_old_rate_limit_entries(
                                     rate_limit_log, now, w, up))]
    /\ UNCHANGED << engine_vars, processed_comments, user_stats,
                    last_reply_time, event_log, now >>

\* can_reply_to_user under some COOLDOWN_SECONDS; `consulted` records whether
\* get_last_reply_time was called (the block at 1963-1975 is entered and the
\* cap test above it has not returned)
CanReplyCall ==
    /\ pc = "store"
    /\ \E cooldown \in 0..MaxCooldown, up \in BOOLEAN, up_time \in BOOLEAN :
         last_call' =
            [op |-> "can_reply_to_user", cooldown |-> cooldown, up |-> up,
             up_time |-> up_time,
             consulted |-> (can_reply_to_user(user_stats, StoreUser, up)
                            /\ cooldown > 0),
             result |-> can_reply_to_user_cooldown(
                            user_stats, last_reply_time, StoreUser, now,
                            cooldown, up, up_time)]
    /\ UNCHANGED << engine_vars, store_vars, now >>

\* the calls of the store, each made at once with the store reachable or not
NextStore ==
    \/ IsCommentProcessedCall
    \/ HasRepliedCall
    \/ GetUserReplyCountCall
    \/ GetRecentReplyCountCall
    \/ CheckRateLimitCall
    \/ AddProcessedCommentCall
    \/ UpdateUserStatsCall
    \/ AddRateLimitEntryCall
    \/ LogEventCall
    \/ CleanOldCall

SpecStore == InitStore /\ [][NextStore]_vars

\* the calls behind the two limits, made as time passes: the rate-limit log
\* (written, counted, cleaned) and the per-user statistics (written, read by
\* can_reply_to_user)
NextLimits ==
    \/ StoreTick
    \/ AddRateLimitEntryCall
    \/ GetRecentReplyCountCall
    \/ CheckRateLimitCall
    \/ CleanOldCall
    \/ UpdateUserStatsCall
    \/ CanReplyCall

SpecLimits == InitStore /\ [][NextLimits]_vars

(***************************************************************************)
(* generate_reply exercised alone (cmt.py 1978-2087): the response cache.   *)
(* The cache is a dict, kept here as the sequence of its entries in        *)
(* insertion order.                                                        *)
(***************************************************************************)
\* cache_key (1993-1995): the hash of post_content[:200] + '|' + the
\* sanitized comment; two inputs have one key exactly when the two parts
\* agree (collisions of the 64-bit hash prefix are left out)
cache_key(post_content, comment_clean) ==
    << post_content.prefix, comment_clean >>

CacheKeys(cache) == {cache[i].key : i \in DOMAIN cache}

\* variant: the cache is never found to hold the key
NeverCached(cache, key) == FALSE

\* `cache_key in self.response_cache` (1998)
IsCached(cache, key) == key \in CacheKeys(cache)

\* self.response_cache[cache_key] (1999)
Cached(cache, key) ==
    cache[CHOOSE i \in DOMAIN cache : cache[i].key = key].reply

\* the clean-up before the model is asked (2004-2008): only a cache of more
\* than MAX_CACHE_SIZE entries loses its CACHE_CLEANUP_SIZE oldest ones
CleanCache(cache) ==
    IF Len(cache) > MAX_CACHE_SIZE
    THEN SubSeq(cache, CACHE_CLEANUP_SIZE + 1, Len(cache))
    ELSE cache

\* what the model service does with the one request: a reply, an empty
\* content, or an exception
ModelOutcomes == {"reply_a", "reply_b", "empty", "raises"}

\* generate_reply: comment 0 stands for a text of fewer than 2 characters;
\* `requests` counts the chat-completion requests issued by the call
generate_reply(cache, comment_clean, post_content, outcome) ==
    LET key == cache_key(post_content, comment_clean)
    IN IF comment_clean = 0
       THEN [cache |-> cache, reply |-> "thanks_for_your_comment",
             requests |-> 0]
       ELSE IF IsCached(cache, key)
       THEN [cache |-> cache, reply |-> Cached(cache, key), requests |-> 0]
       ELSE LET cleaned == CleanCache(cache)
            IN IF outcome = "raises"
               THEN [cache |-> cleaned, reply |-> "fallback",
                     requests |-> 1]
               ELSE LET reply == IF outcome = "empty"
                                 THEN "thanks_for_your_comment_about"
                                 ELSE outcome
                    IN [cache |-> Append(cleaned,
                                         [key |-> key, reply |-> reply]),
                        reply |-> reply, requests |-> 1]

\* two post texts that agree on their first 200 characters
PostTexts == {[prefix |-> "p", rest |-> "x"], [prefix |-> "p", rest |-> "y"]}

\* a cache filled by n calls with the comments 1..n
FilledCache(n) ==
    [i \in 1..n |-> [key |-> << "p", i >>, reply |-> "reply_a"]]

\* the comments handed to generate_reply: the too-short one, the oldest
\* cached one, and three that are not in the cache at the start
RequestComments ==
    {0, 1, MAX_CACHE_SIZE, MAX_CACHE_SIZE + 1, MAX_CACHE_SIZE + 2}

InitCache ==
    /\ pc = "cache"
    /\ run_continuously = TRUE
    /\ post_url = "post_a"
    /\ user_table = EmptyTable
    /\ callers = NoCallers
    /\ iteration = 0
    /\ reply_count = 0
    /\ new_comments = << >>
    /\ comment_queue = EmptyQueue
    /\ session_processed_ids = {}
    /\ bot_user_id = 0
    /\ queue_iter = 0
    /\ batch_num = 0
    /\ batch_size = 0
    /\ processed_any = FALSE
    /\ retry_count = 0
    /\ reply_result = FALSE
    /\ last_pass = NoPass
    /\ processed_comments = [id \in PageIds |-> << >>]
    /\ user_stats = [u \in PageUsers |-> 0]
    /\ last_reply_time = [u \in PageUsers |-> 0]
    /\ rate_limit_log = << >>
    /\ cycle_start = [user_stats |-> [u \in PageUsers |-> 0],
                      rate_limit_log |-> << >>, ok |-> TRUE, store_ok |-> TRUE]
    /\ event_log = {"bot_startup"}
    /\ now = 1
    /\ response_cache = FilledCache(MAX_CACHE_SIZE - 1)
    /\ last_call = NoCall
    /\ teardown = [browser_closed |-> FALSE, playwright_stopped |-> FALSE,
                   db_closed |-> FALSE, store_up |-> TRUE, exit |-> "none"]
    /\ idem_unchecked = FALSE

\* one call of generate_reply
GenerateReplyCall ==
    /\ pc = "cache"
    /\ \E comment \in RequestComments, post \in PostTexts,
          outcome \in ModelOutcomes :
         LET r == generate_reply(response_cache, comment, post, outcome)
         IN /\ response_cache' = r.cache
            /\ last_call' = [op |-> "generate_reply",
                             key |-> cache_key(post, comment),
                             comment |-> comment, post |-> post,
                             requests |-> r.requests, result |-> r.reply]
    /\ UNCHANGED << pc, run_continuously, post_url, upsert_vars, iteration, reply_count,
                    new_comments, comment_queue, session_processed_ids,
                    bot_user_id, drain_vars, reply_vars, teardown,
                    idem_unchecked, cycle_start, store_vars, now >>

NextCache == GenerateReplyCall

SpecCache == InitCache /\ [][NextCache]_vars

(***************************************************************************)
(* calculate_comment_priority exercised alone (cmt.py 896-933).  A comment *)
(* text is a run of `pad` plain letters followed by a few pieces; its age   *)
(* is datetime.now() - timestamp in minutes.                                *)
(***************************************************************************)
Pieces == {"hi", "?", "@", "#", "Buy Now", "www.", "http"}

\* len() of a piece
PieceLen(piece) ==
    CASE piece = "hi" -> 2
      [] piece = "Buy Now" -> 7
      [] piece \in {"www.", "http"} -> 4
      [] OTHER -> 1

\* str.lower() of a piece
Lower(piece) == IF piece = "Buy Now" THEN "buy now" ELSE piece

RECURSIVE PiecesLen(_)
PiecesLen(pieces) ==
    IF pieces = << >> THEN 0
    ELSE PieceLen(Head(pieces)) + PiecesLen(Tail(pieces))

\* len(comment_data['text'])
TextLen(text) == text.pad + PiecesLen(text.pieces)

\* `sub in text` for a character or an indicator, on the text as it is or
\* lowercased
Contains(text, sub) == \E i \in DOMAIN text.pieces : text.pieces[i] = sub
LowerContains(text, sub) ==
    \E i \in DOMAIN text.pieces : Lower(text.pieces[i]) = sub

spam_indicators == << "buy now", "click here", "free money", "www.", "http" >>

\* variant: the penalty is taken for every indicator found
PenaltyPerIndicator(text) ==
    30 * Cardinality({i \in DOMAIN spam_indicators :
                         LowerContains(text, spam_indicators[i])})

\* the loop over spam_indicators with its break (924-928)
SpamPenalty(text) ==
    IF \E i \in DOMAIN spam_indicators :
          LowerContains(text, spam_indicators[i])
    THEN 30 ELSE 0

\* calculate_comment_priority: age_minutes < 60 is hours_old < 1, and so on
calculate_comment_priority(comment_data) ==
    LET p0 == 100
        p1 == IF comment_data.age_minutes < 60 THEN p0 + 50
              ELSE IF comment_data.age_minutes < 360 THEN p0 + 30
              ELSE IF comment_data.age_minutes < 1440 THEN p0 + 15
              ELSE p0
        text_length == TextLen(comment_data.text)
        p2 == IF text_length > 100 THEN p1 + 20
              ELSE IF text_length > 50 THEN p1 + 10
              ELSE p1
        p3 == IF Contains(comment_data.text, "?") THEN p2 + 25 ELSE p2
        p4 == IF Contains(comment_data.text, "@")
                 \/ Contains(comment_data.text, "#")
              THEN p3 + 15 ELSE p3
        p5 == p4 - SpamPenalty(comment_data.text)
    IN IF p5 > 10 THEN p5 ELSE 10

\* the ages and the plain lengths tried: both sides of every threshold
AgeMinutes == {0, 30, 59, 60, 359, 360, 1439, 1440}
PadLengths == {0, 45, 50, 51, 100, 101, 119}

RECURSIVE PieceSeqs(_)
PieceSeqs(n) ==
    IF n = 0 THEN {<< >>}
    ELSE LET shorter == PieceSeqs(n - 1)
         IN shorter \cup {Append(seq, piece) :
                              seq \in {q \in shorter : Len(q) = n - 1},
                              piece \in Pieces}

\* the comment records of smart_comment_detection just before the priority
\* is computed (1043-1054): priority 100
ScoredComments ==
    {[age_minutes |-> age, text |-> [pad |-> pad, pieces |-> pieces],
      priority |-> 100] :
        age \in AgeMinutes, pad \in PadLengths,
        pieces \in PieceSeqs(MaxPieces)}

InitPriority ==
    /\ pc = "priority"
    /\ run_continuously = TRUE
    /\ post_url = "post_a"
    /\ user_table = EmptyTable
    /\ callers = NoCallers
    /\ iteration = 0
    /\ reply_count = 0
    /\ \E c \in ScoredComments : new_comments = << c >>
    /\ comment_queue = EmptyQueue
    /\ session_processed_ids = {}
    /\ bot_user_id = 0
    /\ queue_iter = 0
    /\ batch_num = 0
    /\ batch_size = 0
    /\ processed_any = FALSE
    /\ retry_count = 0
    /\ reply_result = FALSE
    /\ last_pass = NoPass
    /\ processed_comments = [id \in PageIds |-> << >>]
    /\ user_stats = [u \in PageUsers |-> 0]
    /\ last_reply_time = [u \in PageUsers |-> 0]
    /\ rate_limit_log = << >>
    /\ cycle_start = [user_stats |-> [u \in PageUsers |-> 0],
                      rate_limit_log |-> << >>, ok |-> TRUE, store_ok |-> TRUE]
    /\ event_log = {"bot_startup"}
    /\ now = 1
    /\ response_cache = << >>
    /\ last_call = NoCall
    /\ teardown = [browser_closed |-> FALSE, playwright_stopped |-> FALSE,
                   db_closed |-> FALSE, store_up |-> TRUE, exit |-> "none"]
    /\ idem_unchecked = FALSE

\* comment_data['priority'] = self.calculate_comment_priority(comment_data)
\* (1056)
CalculatePriorityCall ==
    /\ pc = "priority"
    /\ new_comments' =
          << [new_comments[1] EXCEPT
                 !.priority = calculate_comment_priority(new_comments[1])] >>
    /\ pc' = "priority_done"
    /\ UNCHANGED << run_continuously, post_url, upsert_vars, other_vars, iteration,
                    reply_count, comment_queue, session_processed_ids,
                    bot_user_id, drain_vars, reply_vars, store_vars,
                    teardown, idem_unchecked, cycle_start >>

NextPriority == CalculatePriorityCall

SpecPriority == InitPriority /\ [][NextPriority]_vars

(***************************************************************************)
(* What a function exercised alone leaves at its value of construction:     *)
(* everything but pc, new_comments and last_call.                           *)
(***************************************************************************)
AtConstruction ==
    /\ run_continuously = TRUE
    /\ post_url = "post_a"
    /\ user_table = EmptyTable
    /\ callers = NoCallers
    /\ iteration = 0
    /\ reply_count = 0
    /\ comment_queue = EmptyQueue
    /\ session_processed_ids = {}
    /\ bot_user_id = 0
    /\ queue_iter = 0
    /\ batch_num = 0
    /\ batch_size = 0
    /\ processed_any = FALSE
    /\ retry_count = 0
    /\ reply_result = FALSE
    /\ last_pass = NoPass
    /\ processed_comments = [id \in PageIds |-> << >>]
    /\ user_stats = [u \in PageUsers |-> 0]
    /\ last_reply_time = [u \in PageUsers |-> 0]
    /\ rate_limit_log = << >>
    /\ cycle_start = [user_stats |-> [u \in PageUsers |-> 0],
                      rate_limit_log |-> << >>, ok |-> TRUE, store_ok |-> TRUE]
    /\ event_log = {"bot_startup"}
    /\ now = 1
    /\ response_cache = << >>
    /\ teardown = [browser_closed |-> FALSE, playwright_stopped |-> FALSE,
                   db_closed |-> FALSE, store_up |-> TRUE, exit |-> "none"]
    /\ idem_unchecked = FALSE

(***************************************************************************)
(* parse_comment_timestamp and _parse_relative_time exercised alone        *)
(* (cmt.py 829-877).  A text is a sequence of tokens: numbers (runs of     *)
(* digits), single spaces and words.  A timestamp is kept as the number of  *)
(* minutes before datetime.now(), 0 being now itself.                       *)
(***************************************************************************)
NumberTokens == {"2", "3", "5", "10", "15"}

\* int(match.group(1))
Value(token) ==
    CASE token = "2" -> 2
      [] token = "3" -> 3
      [] token = "5" -> 5
      [] token = "10" -> 10
      [] token = "15" -> 15

\* the first character of a word, lowercased, when [hHdDwWmM] matches it
UnitOf(token) ==
    CASE token \in {"h"} -> "h"
      [] token \in {"d", "D"} -> "d"
      [] token \in {"w"} -> "w"
      [] token \in {"m", "minutes"} -> "m"
      [] OTHER -> "none"

\* variant: a text is always taken to hold the word 'minute'
AlwaysMinute(time_str) == TRUE

\* 'minute' in time_str.lower() (869)
HasMinuteWord(time_str) ==
    \E i \in DOMAIN time_str : time_str[i] = "minutes"

\* \s* from position i: the first position that is not a space
RECURSIVE SkipSpaces(_, _)
SkipSpaces(time_str, i) ==
    IF i <= Len(time_str) /\ time_str[i] = " "
    THEN SkipSpaces(time_str, i + 1)
    ELSE i

\* re.search(r'(\d+)\s*([hHdDwWmM])', time_str) from position i on: the
\* leftmost number that spaces alone separate from a unit letter
RECURSIVE Search(_, _)
Search(time_str, i) ==
    IF i > Len(time_str) THEN [found |-> FALSE, value |-> 0, unit |-> "none"]
    ELSE LET j == SkipSpaces(time_str, i + 1)
         IN IF /\ time_str[i] \in NumberTokens
               /\ j <= Len(time_str)
               /\ UnitOf(time_str[j]) # "none"
            THEN [found |-> TRUE, value |-> Value(time_str[i]),
                  unit |-> UnitOf(time_str[j])]
            ELSE Search(time_str, i + 1)

\* the value None
Unresolved == [resolved |-> FALSE, minutes |-> 0]

\* _parse_relative_time (853-877)
parse_relative_time(time_str) ==
    LET match == Search(time_str, 1)
    IN IF match.found
       THEN IF match.unit = "h"
            THEN [resolved |-> TRUE, minutes |-> 60 * match.value]
            ELSE IF match.unit = "d"
            THEN [resolved |-> TRUE, minutes |-> 1440 * match.value]
            ELSE IF match.unit = "w"
            THEN [resolved |-> TRUE, minutes |-> 10080 * match.value]
            ELSE IF match.unit = "m" /\ HasMinuteWord(time_str)
            THEN [resolved |-> TRUE, minutes |-> match.value]
            ELSE Unresolved
       ELSE Unresolved

\* parse_comment_timestamp (829-851) over the texts of the elements found:
\* the first text that resolves, or datetime.now()
RECURSIVE parse_comment_timestamp(_)
parse_comment_timestamp(texts) ==
    IF texts = << >> THEN 0
    ELSE IF parse_relative_time(Head(texts)).resolved
    THEN parse_relative_time(Head(texts)).minutes
    ELSE parse_comment_timestamp(Tail(texts))

RECURSIVE TokenSeqs(_)
TokenSeqs(n) ==
    IF n = 0 THEN {<< >>}
    ELSE LET shorter == TokenSeqs(n - 1)
         IN shorter \cup
            {Append(seq, token) :
                seq \in {q \in shorter : Len(q) = n - 1},
                token \in {"2", "5", " ", "h", "D", "w", "m", "minutes"}}

\* the worked examples: 5h, 3d, 2w, 10m, 15 minutes ago
ExampleTexts ==
    {<< "5", "h" >>, << "3", "D" >>, << "2", "w" >>, << "10", "m" >>,
     << "15", " ", "minutes", " ", "ago" >>}

\* the texts tried: two runs of digits never stand side by side, since they
\* would be one number
TimeTexts ==
    {t \in TokenSeqs(MaxTokens) :
        \A i \in 1..(Len(t) - 1) :
           ~(t[i] \in NumberTokens /\ t[i + 1] \in NumberTokens)}
       \cup ExampleTexts

\* a comment element with one timestamp-like text, or with a second one
\* after it
InitTimestamp ==
    /\ pc = "timestamp"
    /\ \E t \in TimeTexts, more \in {<< >>, << << "3", "D" >> >>} :
          new_comments = << [texts |-> << t >> \o more, timestamp |-> 0] >>
    /\ last_call = NoCall
    /\ AtConstruction

\* 'timestamp': self.parse_comment_timestamp(elem); last_call keeps what
\* _parse_relative_time made of the first text
ParseTimestampCall ==
    /\ pc = "timestamp"
    /\ new_comments' =
          << [new_comments[1] EXCEPT
                 !.timestamp = parse_comment_timestamp(new_comments[1].texts)] >>
    /\ last_call' = [op |-> "_parse_relative_time",
                     result |-> parse_relative_time(new_comments[1].texts[1])]
    /\ pc' = "timestamp_done"
    /\ UNCHANGED << run_continuously, post_url, upsert_vars, now, response_cache,
                    iteration, reply_count, comment_queue,
                    session_processed_ids, bot_user_id, drain_vars,
                    reply_vars, store_vars, teardown, idem_unchecked,
                    cycle_start >>

NextTimestamp == ParseTimestampCall

SpecTimestamp == InitTimestamp /\ [][NextTimestamp]_vars

(***************************************************************************)
(* sanitize_text exercised alone (utils/validators.py 23-35).  A text is a  *)
(* sequence of characters: a letter, a space, a tab, a carriage return      *)
(* (x0D) and a control character of the removed ranges (x01).               *)
(***************************************************************************)
Chars == {"a", " ", "tab", "cr", "x01"}

\* the class [\x00-\x08\x0B-\x0C\x0E-\x1F\x7F] of the re.sub (29): tab
\* (x09), newline (x0A) and carriage return (x0D) are outside it
Removed(ch) == ch = "x01"

\* what str.strip() takes off both ends
Whitespace == {" ", "tab", "cr"}

RECURSIVE LStrip(_)
LStrip(text) ==
    IF text # << >> /\ Head(text) \in Whitespace THEN LStrip(Tail(text))
    ELSE text

RECURSIVE RStrip(_)
RStrip(text) ==
    IF text # << >> /\ text[Len(text)] \in Whitespace
    THEN RStrip(SubSeq(text, 1, Len(text) - 1))
    ELSE text

Strip(text) == RStrip(LStrip(text))

\* text.rsplit(' ', 1)[0]: what stands before the last space, or the whole
\* text when it has no space
BeforeLastSpace(text) ==
    IF \E i \in DOMAIN text : text[i] = " "
    THEN LET last == CHOOSE i \in DOMAIN text :
                        /\ text[i] = " "
                        /\ \A k \in DOMAIN text : text[k] = " " => k <= i
         IN SubSeq(text, 1, last - 1)
    ELSE text

\* sanitize_text
sanitize_text(text, max_length) ==
    IF text = << >> THEN << >>
    ELSE LET NotRemoved(ch) == ~Removed(ch)
             sanitized == SelectSeq(text, NotRemoved)
             truncated ==
                IF Len(sanitized) > max_length
                THEN BeforeLastSpace(SubSeq(sanitized, 1, max_length))
                        \o << ".", ".", "." >>
                ELSE sanitized
         IN Strip(truncated)

RECURSIVE CharSeqs(_)
CharSeqs(n) ==
    IF n = 0 THEN {<< >>}
    ELSE LET shorter == CharSeqs(n - 1)
         IN shorter \cup {Append(seq, ch) :
                              seq \in {q \in shorter : Len(q) = n - 1},
                              ch \in Chars}

InitSanitize ==
    /\ pc = "sanitize"
    /\ \E text \in CharSeqs(MaxTextLen), max_length \in 0..MaxTextLen :
          new_comments = << [text |-> text, max_length |-> max_length,
                             result |-> << >>] >>
    /\ last_call = NoCall
    /\ AtConstruction

\* one call of sanitize_text
SanitizeTextCall ==
    /\ pc = "sanitize"
    /\ new_comments' =
          << [new_comments[1] EXCEPT
                 !.result = sanitize_text(new_comments[1].text,
                                          new_comments[1].max_length)] >>
    /\ pc' = "sanitize_done"
    /\ UNCHANGED << run_continuously, post_url, upsert_vars, other_vars, iteration,
                    reply_count, comment_queue, session_processed_ids,
                    bot_user_id, drain_vars, reply_vars, store_vars,
                    teardown, idem_unchecked, cycle_start >>

NextSanitize == SanitizeTextCall

SpecSanitize == InitSanitize /\ [][NextSanitize]_vars

(***************************************************************************)
(* retry_with_backoff exercised alone (utils/retry.py 15-62): one call of   *)
(* the wrapper around a function that returns, raises an error of the      *)
(* `exceptions` tuple, or raises another error.  last_call holds the        *)
(* wrapper's locals, the outcome of every invocation made and every sleep.  *)
(* Invocation k raises error k; 0 stands for None.                          *)
(***************************************************************************)
\* variant: the loop goes round once more
OneMoreAttempt(attempt, max_retries) == attempt <= max_retries

\* for attempt in range(max_retries) (39)
InRange(attempt, max_retries) == attempt < max_retries

\* variant: a sleep follows every failure
AlwaysSleep(attempt, max_retries) == TRUE

\* attempt < max_retries - 1 (44)
ShouldSleep(attempt, max_retries) == attempt + 1 < max_retries

\* variant: every error is caught
CatchesAll(result) == result # "returns"

\* except exceptions as e (42): the error is of one of the kinds given
Caught(result) == result = "raises"

InitRetry ==
    /\ pc = "retry_loop"
    /\ new_comments = << >>
    /\ \E max_retries \in 0..MaxRetriesArg, initial_delay \in 1..MaxDelayArg,
          backoff_factor \in 1..MaxFactorArg :
         last_call = [op |-> "retry_with_backoff",
                      max_retries |-> max_retries,
                      initial_delay |-> initial_delay,
                      backoff_factor |-> backoff_factor,
                      attempt |-> 0, delay |-> initial_delay,
                      last_exception |-> 0,
                      invoked |-> << >>, slept |-> << >>,
                      outcome |-> "running", value |-> 0]
    /\ AtConstruction

retry_frame == << run_continuously, post_url, upsert_vars, now, response_cache, iteration,
                 reply_count, new_comments, comment_queue,
                 session_processed_ids, bot_user_id, drain_vars, reply_vars,
                 store_vars, teardown, idem_unchecked, cycle_start >>

\* one round of the loop (39-52): the function is invoked; its return value
\* is returned, an error outside `exceptions` propagates, an error inside
\* is kept and, unless this was the last round, slept on
RetryAttempt ==
    /\ pc = "retry_loop"
    /\ InRange(last_call.attempt, last_call.max_retries)
    /\ \E result \in {"returns", "raises", "raises_other"} :
         LET k == Len(last_call.invoked) + 1
             invoked == Append(last_call.invoked, result)
         IN IF result = "returns"
            THEN /\ last_call' = [last_call EXCEPT !.invoked = invoked,
                                      !.outcome = "returned", !.value = k]
                 /\ pc' = "retry_done"
            ELSE IF ~Caught(result)
            THEN /\ last_call' = [last_call EXCEPT !.invoked = invoked,
                                      !.outcome = "raised_other", !.value = k]
                 /\ pc' = "retry_done"
            ELSE /\ last_call' =
                      IF ShouldSleep(last_call.attempt, last_call.max_retries)
                      THEN [last_call EXCEPT
                               !.invoked = invoked,
                               !.last_exception = k,
                               !.slept = Append(@, last_call.delay),
                               !.delay = @ * last_call.backoff_factor,
                               !.attempt = @ + 1]
                      ELSE [last_call EXCEPT
                               !.invoked = invoked,
                               !.last_exception = k,
                               !.attempt = @ + 1]
                 /\ pc' = "retry_loop"
    /\ UNCHANGED retry_frame

\* after the loop (54-56): the kept error is raised again, or a RuntimeError
\* when there is none
RetryExhausted ==
    /\ pc = "retry_loop"
    /\ ~InRange(last_call.attempt, last_call.max_retries)
    /\ last_call' =
          IF last_call.last_exception # 0
          THEN [last_call EXCEPT !.outcome = "raised",
                                 !.value = last_call.last_exception]
          ELSE [last_call EXCEPT !.outcome = "runtime_error"]
    /\ pc' = "retry_done"
    /\ UNCHANGED retry_frame

NextRetry == RetryAttempt \/ RetryExhausted

SpecRetry == InitRetry /\ [][NextRetry]_vars

(***************************************************************************)
(* update_user_stats followed request by request (database.py 84-108), for  *)
(* one user and two processes, the store reachable.  A call is a select     *)
(* followed by an update or an insert; the requests of the two processes    *)
(* reach the store in any order.  user_table.user_id_unique tells whether   *)
(* the table refuses a second row for a user_id (its definition is not in   *)
(* the sources); user_table.base is the reply_count the user had at the     *)
(* start.                                                                   *)
(***************************************************************************)
Procs == {1, 2}

\* the rows of a user, as positions in the table
RowsOf(table, user_id) ==
    {i \in DOMAIN table.rows : table.rows[i].user_id = user_id}

\* variant: the select never finds a row
NeverFound(table, user_id) == [found |-> FALSE, reply_count |-> 0]

\* existing = select('user_id, reply_count').eq('user_id', ...) and
\* existing.data[0] (87-89)
SelectExisting(table, user_id) ==
    IF RowsOf(table, user_id) = {}
    THEN [found |-> FALSE, reply_count |-> 0]
    ELSE LET first == CHOOSE i \in RowsOf(table, user_id) :
                         \A k \in RowsOf(table, user_id) : i <= k
         IN [found |-> TRUE, reply_count |-> table.rows[first].reply_count]

\* variant: the update writes the count it has read
UpdateSameCount(table, user_id, existing, t) ==
    [table EXCEPT !.rows =
        [i \in DOMAIN table.rows |->
            IF table.rows[i].user_id = user_id
            THEN [table.rows[i] EXCEPT !.last_reply_time = t]
            ELSE table.rows[i]]]

\* update({...}).eq('user_id', ...) (93-97): every row of the user gets the
\* count read plus one
UpdateRows(table, user_id, existing, t) ==
    [table EXCEPT !.rows =
        [i \in DOMAIN table.rows |->
            IF table.rows[i].user_id = user_id
            THEN [table.rows[i] EXCEPT
                     !.reply_count = existing.reply_count + 1,
                     !.last_reply_time = t]
            ELSE table.rows[i]]]

\* insert({...}) (99-105); refused, and the error swallowed at 107, when the
\* table allows one row per user_id and has one
InsertRow(table, user_id, t) ==
    IF table.user_id_unique /\ RowsOf(table, user_id) # {}
    THEN table
    ELSE [table EXCEPT !.rows =
             Append(@, [user_id |-> user_id, reply_count |-> 1,
                        last_reply_time |-> t, first_reply_time |-> t])]

\* a process between two calls
IdleCaller == [at |-> "idle", t |-> 0,
               existing |-> [found |-> FALSE, reply_count |-> 0],
               done |-> 0, first_t |-> 0]

InitUpsert ==
    /\ pc = "upsert"
    /\ new_comments = << >>
    /\ last_call = NoCall
    /\ \E unique \in BOOLEAN, base \in 0..1 :
          user_table =
             [user_id_unique |-> unique, base |-> base,
              rows |-> IF base = 0 THEN << >>
                       ELSE << [user_id |-> StoreUser, reply_count |-> base,
                                last_reply_time |-> 1,
                                first_reply_time |-> 1] >>]
    /\ callers = [p \in Procs |-> IdleCaller]
    /\ run_continuously = TRUE
    /\ post_url = "post_a"
    /\ iteration = 0
    /\ reply_count = 0
    /\ comment_queue = EmptyQueue
    /\ session_processed_ids = {}
    /\ bot_user_id = 0
    /\ queue_iter = 0
    /\ batch_num = 0
    /\ batch_size = 0
    /\ processed_any = FALSE
    /\ retry_count = 0
    /\ reply_result = FALSE
    /\ last_pass = NoPass
    /\ processed_comments = [id \in PageIds |-> << >>]
    /\ user_stats = [u \in PageUsers |-> 0]
    /\ last_reply_time = [u \in PageUsers |-> 0]
    /\ rate_limit_log = << >>
    /\ cycle_start = [user_stats |-> [u \in PageUsers |-> 0],
                      rate_limit_log |-> << >>, ok |-> TRUE, store_ok |-> TRUE]
    /\ event_log = {"bot_startup"}
    /\ now = 1
    /\ response_cache = << >>
    /\ teardown = [browser_closed |-> FALSE, playwright_stopped |-> FALSE,
                   db_closed |-> FALSE, store_up |-> TRUE, exit |-> "none"]
    /\ idem_unchecked = FALSE

upsert_frame == << pc, run_continuously, post_url, iteration, reply_count,
                  new_comments, comment_queue, session_processed_ids,
                  bot_user_id, drain_vars, reply_vars, store_vars,
                  response_cache, last_call, teardown, idem_unchecked,
                  cycle_start >>

\* a second passes
UpsertTick ==
    /\ pc = "upsert"
    /\ now < MaxTime
    /\ now' = now + 1
    /\ UNCHANGED << upsert_frame, upsert_vars >>

\* the call starts: now = datetime.now().isoformat() (86) and the select
UpsertSelect(p) ==
    /\ pc = "upsert"
    /\ callers[p].at = "idle"
    /\ callers[p].done < MaxUpserts
    /\ callers' = [callers EXCEPT
                      ![p].at = "write",
                      ![p].t = now,
                      ![p].existing = SelectExisting(user_table, StoreUser),
                      ![p].first_t = IF @ = 0 THEN now ELSE @]
    /\ UNCHANGED << upsert_frame, user_table, now >>

\* the write that follows from what the select returned
UpsertWrite(p) ==
    /\ pc = "upsert"
    /\ callers[p].at = "write"
    /\ user_table' =
          IF callers[p].existing.found
          THEN UpdateRows(user_table, StoreUser, callers[p].existing,
                          callers[p].t)
          ELSE InsertRow(user_table, StoreUser, callers[p].t)
    /\ callers' = [callers EXCEPT ![p].at = "idle", ![p].done = @ + 1]
    /\ UNCHANGED << upsert_frame, now >>

NextUpsert ==
    \/ UpsertTick
    \/ \E p \in Procs : UpsertSelect(p)
    \/ \E p \in Procs : UpsertWrite(p)

SpecUpsert == InitUpsert /\ [][NextUpsert]_vars

(***************************************************************************)
(* smart_comment_detection and add_comments_to_queue exercised on a store  *)
(* that earlier sessions have written (cmt.py 935-1089, 3186-3192).  A     *)
(* comment's rows are the statuses recorded for it, oldest first.          *)
(***************************************************************************)
RowHistories ==
    { << >>, << "success" >>, << "failed" >>, << "skipped" >>,
      << "success", "failed" >>, << "failed", "success" >> }

\* the comments whose rows the earlier sessions may have written
StoredIds == {1, 2, 3}

InitDetect ==
    /\ pc = "detect"
    /\ run_continuously = TRUE
    /\ post_url \in PostUrls
    /\ user_table = EmptyTable
    /\ callers = NoCallers
    /\ iteration = 1
    /\ reply_count = 0
    /\ new_comments = << >>
    /\ comment_queue = EmptyQueue
    /\ session_processed_ids \in {{}, {1}}
    /\ bot_user_id = 0
    /\ queue_iter = 0
    /\ batch_num = 0
    /\ batch_size = 0
    /\ processed_any = FALSE
    /\ retry_count = 0
    /\ reply_result = FALSE
    /\ last_pass = NoPass
    /\ \E hist \in [StoredIds -> RowHistories] :
         processed_comments =
             [id \in PageIds |-> IF id \in StoredIds THEN hist[id] ELSE << >>]
    /\ user_stats = [u \in PageUsers |-> 0]
    /\ last_reply_time = [u \in PageUsers |-> 0]
    /\ rate_limit_log = << >>
    /\ cycle_start = [user_stats |-> [u \in PageUsers |-> 0],
                      rate_limit_log |-> << >>, ok |-> TRUE, store_ok |-> TRUE]
    /\ event_log = {"bot_startup"}
    /\ now = 1
    /\ response_cache = << >>
    /\ last_call = NoCall
    /\ teardown = [browser_closed |-> FALSE, playwright_stopped |-> FALSE,
                   db_closed |-> FALSE, store_up |-> TRUE, exit |-> "none"]
    /\ idem_unchecked = FALSE

\* one call of smart_comment_detection as run() makes it (3186-3194); the
\* call's view of the page and whether the store answered are kept in
\* last_call
DetectCall ==
    /\ pc = "detect"
    /\ \E view \in PostViews(post_url), rd \in BOOLEAN, wr \in BOOLEAN :
         LET r == smart_comment_detection(view, session_processed_ids,
                                          bot_user_id, processed_comments,
                                          rd, wr)
         IN /\ new_comments' = r.detected
            /\ session_processed_ids' = r.session
            /\ bot_user_id' = r.bot_user_id
            /\ processed_comments' = r.rows
            /\ cycle_start' = [cycle_start EXCEPT !.ok = @ /\ rd /\ wr,
                                               !.store_ok = @ /\ rd /\ wr]
            /\ last_call' = [op |-> "smart_comment_detection", view |-> view,
                             rd |-> rd, wr |-> wr,
                             session |-> session_processed_ids]
    /\ pc' = AfterDetection(new_comments')
    /\ queue_iter' = 0
    /\ UNCHANGED << run_continuously, post_url, upsert_vars, now,
                    response_cache, iteration, reply_count, comment_queue,
                    batch_num, batch_size, processed_any, reply_vars,
                    user_stats, last_reply_time, rate_limit_log, event_log,
                    teardown, idem_unchecked >>

NextDetect == DetectCall \/ Enqueue

SpecDetect == InitDetect /\ [][NextDetect]_vars

(***************************************************************************)
(* update_adaptive_scan_interval and the sleep that ends an iteration of   *)
(* run() (cmt.py 1835-1851, 3231-3244), exercised alone.  Times are in     *)
(* seconds; intervals are in tenths of a second, so that base * 0.5,       *)
(* base * 1.5 and base * 0.8 are base * 5, base * 15 and base * 8.         *)
(* last_call holds config['DELAYS']['SCAN_INTERVAL'], the bot's            *)
(* adaptive_scan_interval and last_activity_time, the time of the last     *)
(* successful reply (0: none yet) and the waits slept so far.              *)
(***************************************************************************)
\* values of SCAN_INTERVAL, in seconds
ScanIntervals == {0, 1, 8, 10, 30, 50, 100}

\* what the clock may advance by between two steps, in seconds
ClockSteps == {1, 299, 300}

\* variant: the factor is applied to the interval of the iteration before
CompoundedInterval(base, previous, pending, t, last_activity) ==
    LET raw == IF Len(pending) = 0
               THEN IF t - last_activity < 300
                    THEN (previous * 5) \div 10
                    ELSE (previous * 15) \div 10
               ELSE (previous * 8) \div 10
        capped == IF raw > 600 THEN 600 ELSE raw
    IN IF capped < 50 THEN 50 ELSE capped

\* update_adaptive_scan_interval (1835-1851): the new adaptive_scan_interval
update_adaptive_scan_interval(base, previous, pending, t, last_activity) ==
    LET time_since_last_activity == t - last_activity
        raw == IF Len(pending) = 0
               THEN IF time_since_last_activity < 300
                    THEN base * 5
                    ELSE base * 15
               ELSE base * 8
        capped == IF raw > 600 THEN 600 ELSE raw
    IN IF capped < 50 THEN 50 ELSE capped

\* the wait at the end of an iteration (3236-3244)
wait_time(pending, interval) ==
    IF Len(pending) > 0
    THEN IF interval > 100 THEN 100 ELSE interval
    ELSE interval

\* __init__ (174-175): the interval starts at the configured one, and
\* last_activity_time at the time of construction
InitInterval ==
    /\ pc = "interval"
    /\ new_comments = << >>
    /\ AtConstruction
    /\ \E base \in ScanIntervals :
         last_call = [op |-> "update_adaptive_scan_interval",
                      base |-> base,
                      adaptive_scan_interval |-> base * 10,
                      last_activity_time |-> now,
                      last_success |-> 0,
                      ticks |-> 0, calls |-> 0,
                      pending_was |-> 0, called_at |-> 0,
                      activity_was |-> 0, success_was |-> 0,
                      slept |-> << >>]

interval_frame == << run_continuously, post_url, upsert_vars, response_cache,
                     iteration, reply_count, new_comments,
                     session_processed_ids, bot_user_id, drain_vars,
                     reply_vars, store_vars, teardown, idem_unchecked,
                     cycle_start >>

\* time passes
IntervalTick ==
    /\ pc = "interval"
    /\ last_call.ticks < MaxTicks
    /\ \E d \in ClockSteps : now' = now + d
    /\ last_call' = [last_call EXCEPT !.ticks = @ + 1]
    /\ UNCHANGED << pc, comment_queue, interval_frame >>

\* process_comment_queue after a successful reply (1796-1799)
ReplySucceeded ==
    /\ pc = "interval"
    /\ last_call.last_success # now
    /\ last_call' = [last_call EXCEPT !.last_activity_time = now,
                                      !.last_success = now]
    /\ UNCHANGED << pc, now, comment_queue, interval_frame >>

\* a comment is pending, or none is
PendingChanges ==
    /\ pc = "interval"
    /\ comment_queue' =
          [comment_queue EXCEPT
              !.pending = IF @ = << >> THEN << PageElems[1] >> ELSE << >>]
    /\ UNCHANGED << pc, now, last_call, interval_frame >>

\* run(): update_adaptive_scan_interval, then time.sleep(wait_time)
\* (3231-3244)
UpdateIntervalCall ==
    /\ pc = "interval"
    /\ last_call.calls < MaxIntervalCalls
    /\ LET interval == update_adaptive_scan_interval(
                           last_call.base, last_call.adaptive_scan_interval,
                           comment_queue.pending, now,
                           last_call.last_activity_time)
       IN last_call' =
            [last_call EXCEPT
                !.adaptive_scan_interval = interval,
                !.calls = @ + 1,
                !.pending_was = Len(comment_queue.pending),
                !.called_at = now,
                !.activity_was = last_call.last_activity_time,
                !.success_was = last_call.last_success,
                !.slept = Append(@, wait_time(comment_queue.pending,
                                              interval))]
    /\ UNCHANGED << pc, now, comment_queue, interval_frame >>

NextInterval ==
    IntervalTick \/ ReplySucceeded \/ PendingChanges \/ UpdateIntervalCall

SpecInterval == InitInterval /\ [][NextInterval]_vars

(***************************************************************************)
(* get_comment_id exercised alone.  The class body defines the method      *)
(* three times (cmt.py 1238, 1250, 1417); the last definition is the one   *)
(* bound to the name, and the one smart_comment_detection calls (964).     *)
(* sha256(...).hexdigest()[:16] is kept as the string it hashes: equal     *)
(* strings give equal identifiers, different strings different ones.       *)
(* now counts calendar days here.                                          *)
(***************************************************************************)
\* comment elements: the markup (first 200 characters and the rest), the
\* text content (first 200 characters and the rest) and the text of the
\* first author link ("unknown" when there is none)
CommentElements ==
    [markup_head : {"m1", "m2"}, markup_rest : {"", "m3"},
     text_head : {"t1", "t2"}, text_rest : {"", "t3"},
     author : {"Alice", "unknown"}]

\* the numbers random.randint may draw (1429)
RandomDraws == {1000000, 9999999}

\* the definitions at 1238-1257: the first 200 characters of inner_html()
MarkupId(element, day, raised, draw) ==
    IF raised THEN << "new" >> ELSE << element.markup_head >>

\* get_comment_id (1417-1429): author, the first 200 characters of
\* text_content() and today's date; a random number when anything raises
get_comment_id(element, day, raised, draw) ==
    IF raised THEN << "random", draw >>
    ELSE << element.author, element.text_head, day >>

InitCommentId ==
    /\ pc = "scan_element"
    /\ new_comments = << >>
    /\ AtConstruction
    /\ \E element \in CommentElements :
         last_call = [op |-> "get_comment_id", element |-> element,
                      ids |-> << >>, days |-> << >>, raised |-> << >>]

comment_id_frame == << run_continuously, post_url, upsert_vars,
                       response_cache, iteration, reply_count, new_comments,
                       comment_queue, session_processed_ids, bot_user_id,
                       drain_vars, reply_vars, store_vars, teardown,
                       idem_unchecked, cycle_start >>

\* midnight passes
NextDay ==
    /\ pc = "scan_element"
    /\ now < MaxDays
    /\ now' = now + 1
    /\ UNCHANGED << pc, last_call, comment_id_frame >>

\* a scan computes the identifier of the element, which has not changed
GetCommentIdCall ==
    /\ pc = "scan_element"
    /\ Len(last_call.ids) < MaxScans
    /\ \E raised \in BOOLEAN, draw \in RandomDraws :
         last_call' =
            [last_call EXCEPT
                !.ids = Append(@, get_comment_id(last_call.element, now,
                                                 raised, draw)),
                !.days = Append(@, now),
                !.raised = Append(@, raised)]
    /\ UNCHANGED << pc, now, comment_id_frame >>

NextCommentId == NextDay \/ GetCommentIdCall

SpecCommentId == InitCommentId /\ [][NextCommentId]_vars

(***************************************************************************)
(* reply_to_comment from the submission of the typed reply on              *)
(* (cmt.py 2855-3102), one attempt of its retry loop per step, for one     *)
(* comment.  last_call holds retry_count, what every attempt did and the   *)
(* value returned.  A submission action counts as performed when its call  *)
(* returned without raising.                                               *)
(***************************************************************************)
\* what the page lets each submission strategy do: the enabled submit
\* button next to the box (2863-2897), Ctrl+Enter (2904-2911), Enter
\* (2913-2920), the search for a button (2922-2986), the click at a
\* coordinate (2988-3001) and the Ctrl+Enter sent to the page when that
\* click raises (3003-3007)
SubmitOutcomes ==
    [button : {"unavailable", "done", "raised"},
     ctrl_enter : {"done", "raised"},
     enter : {"done", "raised"},
     search : {"unavailable", "done"},
     coordinate : {"unavailable", "done", "raised"},
     fallback : {"done", "raised"}]

\* variant: every strategy is tried
AlwaysTry(submitted) == TRUE

\* `if not submitted:` before each strategy after the first
TryNext(submitted) == ~submitted

\* one strategy: when its action is performed, submitted becomes True
Strategy(before, tried, outcome, action) ==
    IF tried /\ outcome = "done"
    THEN [submitted |-> TRUE, actions |-> Append(before.actions, action)]
    ELSE before

\* the submission strategies in the order of the code (2858-3007): the
\* value of `submitted` and the actions performed
submit_reply(o) ==
    LET s0 == [submitted |-> FALSE, actions |-> << >>]
        s1 == Strategy(s0, TRUE, o.button, "submit_click")
        s2 == Strategy(s1, TryNext(s1.submitted), o.ctrl_enter, "ctrl_enter")
        s3 == Strategy(s2, TryNext(s1.submitted) /\ TryNext(s2.submitted),
                       o.enter, "enter")
        s4 == Strategy(s3, TryNext(s3.submitted), o.search, "button_click")
        s5 == Strategy(s4, TryNext(s4.submitted), o.coordinate,
                       "coordinate_click")
    IN IF TryNext(s4.submitted) /\ o.coordinate = "raised"
                                /\ o.fallback = "done"
       THEN [s5 EXCEPT !.actions = Append(@, "page_ctrl_enter")]
       ELSE s5

\* the comment being replied to
SubmitComment == PageElems[1]

InitSubmit ==
    /\ pc = "submit"
    /\ new_comments = << >>
    /\ AtConstruction
    /\ last_call = [op |-> "reply_to_comment", retry_count |-> 0,
                    attempts |-> << >>, result |-> "running"]

submit_frame == << run_continuously, post_url, upsert_vars, now,
                   response_cache, iteration, reply_count, new_comments,
                   comment_queue, session_processed_ids, bot_user_id,
                   drain_vars, reply_vars, event_log, teardown,
                   idem_unchecked, cycle_start >>

\* the attempt ends before the reply is submitted, with an exception
\* (3065-3101)
AttemptFailsBefore ==
    /\ pc = "submit"
    /\ last_call.retry_count < MAX_RETRIES
    /\ \E wr \in BOOLEAN :
         LET attempt == [reached |-> FALSE, submitted |-> FALSE,
                         actions |-> << >>, dialog |-> FALSE]
         IN IF CanRetry(last_call.retry_count)
            THEN /\ last_call' = [last_call EXCEPT
                                     !.retry_count = @ + 1,
                                     !.attempts = Append(@, attempt)]
                 /\ UNCHANGED << pc, processed_comments >>
            ELSE /\ last_call' = [last_call EXCEPT
                                     !.attempts = Append(@, attempt),
                                     !.result = "False"]
                 /\ processed_comments' =
                       add_processed_comment(processed_comments,
                                             SubmitComment.id, "failed", wr)
                 /\ pc' = "submit_done"
    /\ UNCHANGED << user_stats, last_reply_time, rate_limit_log,
                    submit_frame >>

\* the attempt reaches the submission (2858-3064): the strategies, the
\* check for the 'Stay on Page' dialog, then the success path
SubmitAttempt ==
    /\ pc = "submit"
    /\ last_call.retry_count < MAX_RETRIES
    /\ \E o \in SubmitOutcomes, dialog \in BOOLEAN, wr \in BOOLEAN :
         LET r == submit_reply(o)
             attempt == [reached |-> TRUE, submitted |-> r.submitted,
                         actions |-> r.actions, dialog |-> dialog]
         IN IF dialog
            THEN /\ IF CanRetry(last_call.retry_count)
                    THEN /\ last_call' = [last_call EXCEPT
                                             !.retry_count = @ + 1,
                                             !.attempts = Append(@, attempt)]
                         /\ UNCHANGED pc
                    ELSE /\ last_call' = [last_call EXCEPT
                                             !.attempts = Append(@, attempt),
                                             !.result = "False"]
                         /\ pc' = "submit_done"
                 /\ UNCHANGED << processed_comments, user_stats,
                                 last_reply_time, rate_limit_log >>
            ELSE /\ last_call' = [last_call EXCEPT
                                     !.attempts = Append(@, attempt),
                                     !.result = "True"]
                 /\ processed_comments' =
                       add_processed_comment(processed_comments,
                                             SubmitComment.id, "success", wr)
                 /\ user_stats' = update_user_stats(user_stats,
                                                    SubmitComment.user_id, wr)
                 /\ last_reply_time' =
                       update_last_reply_time(last_reply_time,
                                              SubmitComment.user_id, now, wr)
                 /\ rate_limit_log' =
                       add_rate_limit_entry(rate_limit_log, now, wr)
                 /\ pc' = "submit_done"
    /\ UNCHANGED submit_frame

NextSubmit == AttemptFailsBefore \/ SubmitAttempt

SpecSubmit == InitSubmit /\ [][NextSubmit]_vars

(***************************************************************************)
(* Properties.                                                             *)
(***************************************************************************)
\* a step of reply_to_comment: one pass of its loop
ReplyPassStep == pc = "reply" /\ pc' \in {"reply", "after_reply"}

\* the step on which reply_to_comment returns
ReplyReturnStep == pc = "reply" /\ pc' = "after_reply"

\* C1: with the store's reads working, a pass of reply_to_comment for a
\* comment that already has a 'success' row returns False at the store check
\* and leaves processed_comments, user_stats and rate_limit_log as they are;
\* and as long as no pass ran with the reads failing, no comment id has two
\* 'success' rows.
C1_Idempotent ==
    /\ [][ (/\ ReplyPassStep
            /\ last_pass'.rd
            /\ SuccessRows(processed_comments, Current.id) >= 1)
           => (/\ pc' = "after_reply"
               /\ reply_result' = FALSE
               /\ last_pass'.cause = "replied"
               /\ processed_comments' = processed_comments
               /\ user_stats' = user_stats
               /\ rate_limit_log' = rate_limit_log) ]_vars
    /\ [](~idem_unchecked =>
             \A id \in PageIds : SuccessRows(processed_comments, id) <= 1)

\* C1 witness: a comment with a 'success' row reached reply_to_comment (the
\* scan and the enqueue ran with the store down) and the pass, reading the
\* store, returned at the check.
C1_Witness ==
    /\ pc = "after_reply"
    /\ last_pass.cause = "replied"
    /\ last_pass.rd
    /\ ~idem_unchecked
    /\ SuccessRows(processed_comments, Current.id) = 1

\* the one comment of a single-comment scan
TheComment == new_comments[1]

\* what the cycle is said to leave behind for that comment
CycleSucceeded ==
    /\ SuccessRows(processed_comments, TheComment.id) = 1
    /\ user_stats[TheComment.user_id] =
           cycle_start.user_stats[TheComment.user_id] + 1
    /\ Len(rate_limit_log) = Len(cycle_start.rate_limit_log) + 1
    /\ \E i \in DOMAIN comment_queue.completed :
           comment_queue.completed[i] = TheComment.id

\* the iteration's scan returned exactly one comment and store, model and
\* browser worked at every step of the iteration
OneCommentCycleDone ==
    /\ pc = "post"
    /\ cycle_start.ok
    /\ Len(new_comments) = 1

\* C2 as stated: a cycle over one new, non-own comment with non-trivial text,
\* everything working, ends with exactly one 'success' row, the user's
\* reply_count one higher, one more rate-limit entry and the id in completed.
C2_AsStated == OneCommentCycleDone => CycleSucceeded

\* C2: the same, for a comment whose user can_reply_to_user accepts (below
\* the per-user cap) when the iteration starts.
C2_CycleSucceeds ==
    (/\ OneCommentCycleDone
     /\ can_reply_to_user(cycle_start.user_stats, TheComment.user_id, TRUE))
    => CycleSucceeded

\* C2 witness: such a cycle has run and the comment is in completed.
C2_Witness ==
    /\ OneCommentCycleDone
    /\ can_reply_to_user(cycle_start.user_stats, TheComment.user_id, TRUE)
    /\ comment_queue.completed = << TheComment.id >>

\* C3 as stated: when reply_to_comment gives up with its budget used, for
\* whatever cause, and the store takes writes, the step appends a 'failed'
\* row for the comment.
C3_FailedRowOnGiveUp ==
    [][ (/\ ReplyReturnStep
         /\ last_pass'.cause \in BudgetOutcomes
         /\ last_pass'.last_attempt
         /\ last_pass'.rd
         /\ last_pass'.wr)
        => processed_comments' =
              add_processed_comment(processed_comments, Current.id,
                                    "failed", TRUE) ]_vars

\* C4 as stated: every pass of the retry loop that does not return raises
\* retry_count.
C4_PassReturnsOrCounts ==
    [][ (pc = "reply" /\ pc' = "reply") => retry_count' > retry_count ]_vars

\* identifiers held by the four lists
PendingIds ==
    {comment_queue.pending[i].id : i \in DOMAIN comment_queue.pending}
ProcessingIds ==
    {comment_queue.processing[i].id : i \in DOMAIN comment_queue.processing}
CompletedIds ==
    {comment_queue.completed[i] : i \in DOMAIN comment_queue.completed}
FailedIds ==
    {comment_queue.failed[i] : i \in DOMAIN comment_queue.failed}

\* C5 as stated: pending, processing, completed and failed are pairwise
\* disjoint by comment identifier in every state.
C5_ListsDisjoint ==
    /\ PendingIds \cap ProcessingIds = {}
    /\ PendingIds \cap CompletedIds = {}
    /\ PendingIds \cap FailedIds = {}
    /\ ProcessingIds \cap CompletedIds = {}
    /\ ProcessingIds \cap FailedIds = {}
    /\ CompletedIds \cap FailedIds = {}

\* C6: no two comments in pending and processing together have the same
\* user identifier.
C6_OneCommentPerUser ==
    LET outstanding == comment_queue.pending \o comment_queue.processing
    IN \A i, j \in DOMAIN outstanding :
          i # j => outstanding[i].user_id # outstanding[j].user_id

\* C6 witness: add_comments_to_queue was given a batch with two comments of
\* one user and has put one of them in pending.
C6_Witness ==
    /\ pc = "drain"
    /\ \E i, j \in DOMAIN new_comments :
          /\ i # j
          /\ new_comments[i].user_id = new_comments[j].user_id
          /\ \E k \in DOMAIN comment_queue.pending :
                comment_queue.pending[k].id = new_comments[i].id

\* the step that is one call of add_comments_to_queue
EnqueueStep == pc = "enqueue" /\ pc' = "drain"

\* the comment would be accepted if it were the only one of the batch
AcceptableAlone(c) ==
    ValidComments(comment_queue, << c >>, bot_user_id, user_stats, TRUE).valid
        = << c >>

\* of two comments of one batch, `kept` is in pending after the call (unless
\* the truncation has cut the list) and `dropped` is not
OnlyFirstKept(kept, dropped) ==
    /\ \A k \in DOMAIN comment_queue'.pending :
          comment_queue'.pending[k] # dropped
    /\ \/ \E k \in DOMAIN comment_queue'.pending :
             comment_queue'.pending[k] = kept
       \/ Len(comment_queue'.pending) = max_queue_size

\* C7 as stated: of two acceptable comments of one user in a batch, the one
\* with the higher priority is added, wherever the two stand in the batch.
C7_HigherPriorityKept ==
    [][ EnqueueStep =>
          \A i, j \in DOMAIN new_comments :
             (/\ i # j
              /\ new_comments[i].user_id = new_comments[j].user_id
              /\ AcceptableAlone(new_comments[i])
              /\ AcceptableAlone(new_comments[j])
              /\ new_comments[i].priority > new_comments[j].priority)
             => OnlyFirstKept(new_comments[i], new_comments[j]) ]_vars

\* seq is in non-increasing order of priority
IsSortedDesc(seq) ==
    \A i \in 1..(Len(seq) - 1) : seq[i].priority >= seq[i + 1].priority

\* C7: of two acceptable comments of one user in a batch, the one that comes
\* first in the batch is added; in a batch sorted by non-increasing priority
\* (as smart_comment_detection returns it) that one has the higher or an
\* equal priority.
C7_FirstInBatchKept ==
    [][ EnqueueStep =>
          \A i, j \in DOMAIN new_comments :
             (/\ i < j
              /\ new_comments[i].user_id = new_comments[j].user_id
              /\ AcceptableAlone(new_comments[i])
              /\ AcceptableAlone(new_comments[j]))
             => /\ OnlyFirstKept(new_comments[i], new_comments[j])
                /\ IsSortedDesc(new_comments) =>
                      new_comments[i].priority >= new_comments[j].priority
      ]_vars

\* C7 witness: after a call, of two comments of one user the one of lower
\* priority, first in the batch, is in pending and the other is not.
C7_Witness ==
    /\ pc = "drain"
    /\ \E i, j \in DOMAIN new_comments :
          /\ i < j
          /\ new_comments[i].user_id = new_comments[j].user_id
          /\ new_comments[i].priority < new_comments[j].priority
          /\ \E k \in DOMAIN comment_queue.pending :
                comment_queue.pending[k] = new_comments[i]
          /\ \A k \in DOMAIN comment_queue.pending :
                comment_queue.pending[k] # new_comments[j]

\* the smaller of two numbers
Min(a, b) == IF a <= b THEN a ELSE b

\* C8: after a call of add_comments_to_queue pending is sorted by
\* non-increasing priority, has at most max_queue_size entries, and holds the
\* highest-priority entries of the previous pending list and the accepted
\* comments together; a batch of MaxBatch accepted comments into an empty
\* queue leaves exactly max_queue_size of them.
C8_PendingSortedTop ==
    [][ EnqueueStep =>
          LET before == comment_queue.pending
              valid == ValidComments(comment_queue, new_comments, bot_user_id,
                                     user_stats, TRUE).valid
              all == before \o valid
              after == comment_queue'.pending
          IN /\ IsSortedDesc(after)
             /\ Len(after) <= max_queue_size
             /\ Len(after) = Min(Len(all), max_queue_size)
             /\ \A k \in DOMAIN after : \E m \in DOMAIN all : all[m] = after[k]
             /\ \A m \in DOMAIN all :
                   (\A k \in DOMAIN after : after[k] # all[m])
                   => \A k \in DOMAIN after :
                         after[k].priority >= all[m].priority
             /\ (before = << >> /\ Len(valid) = MaxBatch)
                   => Len(after) = max_queue_size
      ]_vars

\* C8 witness: the first call was given MaxBatch comments and has left
\* max_queue_size of them in pending, comments of the batch left out.
C8_Witness ==
    /\ pc = "drain"
    /\ iteration = 1
    /\ Len(new_comments) = MaxBatch
    /\ Len(comment_queue.pending) = max_queue_size
    /\ \E i \in DOMAIN new_comments :
          \A k \in DOMAIN comment_queue.pending :
             comment_queue.pending[k] # new_comments[i]

\* positions of run() that belong to draining the queue
DrainPcs == {"drain", "batch", "reply", "after_reply"}

\* C9: within an iteration the scan comes before the enqueue and the enqueue
\* before the drain (the enqueue is entered from the scan only, the drain
\* from the enqueue or from a scan that found nothing, pending grows in the
\* enqueue only); processing never holds more than one comment; a comment
\* moved from pending to processing has a priority at least that of every
\* comment left in pending.
C9_OrderedDrain ==
    /\ [][ /\ pc' = "detect" => pc \in {"loop", "detect"}
           /\ pc' = "enqueue" => pc \in {"detect", "enqueue"}
           /\ (pc' \in DrainPcs /\ pc \notin DrainPcs)
                 => /\ pc \in {"detect", "enqueue"}
                    /\ pc = "detect" => new_comments' = << >>
           /\ Len(comment_queue'.pending) > Len(comment_queue.pending)
                 => pc = "enqueue"
           /\ (pc = "batch" /\ pc' = "reply")
                 => /\ comment_queue'.processing =
                          << Head(comment_queue.pending) >>
                    /\ \A k \in DOMAIN comment_queue'.pending :
                          Head(comment_queue.pending).priority >=
                             comment_queue'.pending[k].priority
         ]_vars
    /\ [](Len(comment_queue.processing) <= 1)

\* C9 witness: a comment is being answered while another of lower priority,
\* enqueued with it, is still pending.
C9_Witness ==
    /\ pc = "reply"
    /\ comment_queue.pending # << >>
    /\ Current.priority > comment_queue.pending[1].priority

\* C10 as stated: when run() has left its loop, by the loop's end, by
\* KeyboardInterrupt or by an exception, the browser is closed, the
\* persistence client is closed and, the store being reachable, a
\* bot_shutdown event is recorded.
C10_TeardownComplete ==
    (/\ pc = "done"
     /\ teardown.exit \in {"loop_end", "keyboard_interrupt", "exception"})
    => /\ teardown.browser_closed
       /\ teardown.db_closed
       /\ teardown.store_up => "bot_shutdown" \in event_log

\* the comment is the bot's own as the specification identifies it: by the
\* configured name, case and surrounding blanks ignored, or by the user
\* identifier remembered from an earlier own comment
OwnByNameOrId(e) ==
    \/ Normalize(e.author) = bot_name_normalized
    \/ bot_user_id # 0 /\ e.user_id = bot_user_id

C12_FailOpen ==
    /\ []((last_call.op \in ReadOps /\ ~last_call.up)
          => IF last_call.op \in {"is_comment_processed",
                                   "has_replied_to_comment"}
             THEN last_call.result = FALSE
             ELSE last_call.result = 0)
    /\ [][ (last_call'.op \in WriteOps /\ ~last_call'.up)
           => (/\ last_call'.result = "returned"
               /\ UNCHANGED store_vars) ]_vars

\* C12 witness: with a row for the comment in the table, is_comment_processed
\* was called while the store was unreachable and answered False.
C12_Witness ==
    /\ last_call.op = "is_comment_processed"
    /\ ~last_call.up
    /\ Len(processed_comments[StoreId]) > 0
    /\ last_call.result = FALSE

\* C13 as stated: with the store reachable, get_recent_reply_count returns
\* the number of rate-limit rows inside the window, and check_rate_limit
\* denies exactly when that number for RATE_LIMIT_WINDOW is at least
\* MAX_REPLIES_PER_WINDOW.
C13_RateLimitCounts ==
    /\ (last_call.op = "get_recent_reply_count" /\ last_call.up)
       => last_call.result =
             Cardinality(RecentRows(rate_limit_log, now, last_call.window))
    /\ (last_call.op = "check_rate_limit" /\ last_call.up)
       => (last_call.result = FALSE
           <=> Cardinality(RecentRows(rate_limit_log, now, RATE_LIMIT_WINDOW))
                  >= MAX_REPLIES_PER_WINDOW)


C15_CapDenies ==
    /\ [](\A u \in PageUsers :
            user_stats[u] >= MAX_REPLIES_PER_USER
            => \A cooldown \in 0..MaxCooldown, up_time \in BOOLEAN :
                  ~can_reply_to_user_cooldown(user_stats, last_reply_time, u,
                                              now, cooldown, TRUE, up_time))
    /\ [][ (EnqueueStep /\ cycle_start'.ok)
           => \A k \in DOMAIN comment_queue'.pending :
                 LET c == comment_queue'.pending[k]
                 IN c.id \notin PendingIds
                    => user_stats[c.user_id] < MAX_REPLIES_PER_USER ]_vars

\* C15 witness: add_comments_to_queue has run with the store reachable on a
\* batch holding a comment of a user at the cap; that comment is not in
\* pending while another comment of the batch is.
C15_Witness ==
    /\ pc = "drain"
    /\ cycle_start.ok
    /\ \E i, j \in DOMAIN new_comments :
          /\ user_stats[new_comments[i].user_id] >= MAX_REPLIES_PER_USER
          /\ new_comments[i].id \notin PendingIds
          /\ new_comments[j].id \in PendingIds


GenerateReplyStep == last_call'.op = "generate_reply" /\ pc = "cache"

\* C17: a generate_reply call whose (post prefix, sanitized comment) pair is
\* in the cache returns the cached reply, issues no model request and leaves
\* the cache alone; a call that is answered by the model puts that answer in
\* the cache under the pair, so that the later call returns the same reply.
C17_CacheHit ==
    [][ GenerateReplyStep
        => LET key == last_call'.key
           IN /\ (last_call'.comment # 0 /\ key \in CacheKeys(response_cache))
                 => /\ last_call'.result = Cached(response_cache, key)
                    /\ last_call'.requests = 0
                    /\ response_cache' = response_cache
              /\ (last_call'.requests = 1 /\ last_call'.result # "fallback")
                 => /\ key \in CacheKeys(response_cache')
                    /\ Cached(response_cache', key) = last_call'.result ]_vars

\* C17 witness: a call for a pair cached with the model's second answer was
\* served from the cache, without a request, while other pairs are cached
\* with another answer.
C17_Witness ==
    /\ last_call.op = "generate_reply"
    /\ last_call.requests = 0
    /\ last_call.comment >= MAX_CACHE_SIZE
    /\ last_call.result = "reply_b"
    /\ last_call.key \in CacheKeys(response_cache)


\* C18 as stated: when the cache holds MAX_CACHE_SIZE entries and a call
\* inserts a new key, the CACHE_CLEANUP_SIZE earliest entries are evicted and
\* MAX_CACHE_SIZE - CACHE_CLEANUP_SIZE + 1 entries are left, the new one
\* last.
C18_EvictsOnInsert ==
    [][ (/\ GenerateReplyStep
         /\ Len(response_cache) = MAX_CACHE_SIZE
         /\ last_call'.key \notin CacheKeys(response_cache)
         /\ last_call'.key \in CacheKeys(response_cache'))
        => /\ Len(response_cache') = MAX_CACHE_SIZE - CACHE_CLEANUP_SIZE + 1
           /\ SubSeq(response_cache', 1, MAX_CACHE_SIZE - CACHE_CLEANUP_SIZE)
                 = SubSeq(response_cache, CACHE_CLEANUP_SIZE + 1,
                          MAX_CACHE_SIZE) ]_vars

\* C19 as stated: between two calls of generate_reply the cache holds at
\* most MAX_CACHE_SIZE entries.
C19_CacheBounded == Len(response_cache) <= MAX_CACHE_SIZE


\* the bonuses as the specification words them
AgeBonus(age_minutes) ==
    CASE age_minutes < 60 -> 50
      [] age_minutes >= 60 /\ age_minutes < 360 -> 30
      [] age_minutes >= 360 /\ age_minutes < 1440 -> 15
      [] OTHER -> 0
LengthBonus(length) ==
    CASE length > 100 -> 20
      [] length <= 100 /\ length > 50 -> 10
      [] OTHER -> 0
SpamMatches(text) ==
    Cardinality({i \in DOMAIN spam_indicators :
                    LowerContains(text, spam_indicators[i])})

\* C20: the priority computed for a comment is max(10, 100 + age bonus +
\* length bonus + 25 for a '?' + 15 for an '@' or a '#' - 30 when the
\* lowercased text holds one spam indicator or several); a 30-minute-old
\* question of 120 characters gets 195 and a bare spam hit gets 70.
C20_PriorityFormula ==
    pc = "priority_done"
    => LET c == new_comments[1]
           total == 100 + AgeBonus(c.age_minutes) + LengthBonus(TextLen(c.text))
                        + (IF Contains(c.text, "?") THEN 25 ELSE 0)
                        + (IF Contains(c.text, "@") \/ Contains(c.text, "#")
                           THEN 15 ELSE 0)
                        - (IF SpamMatches(c.text) >= 1 THEN 30 ELSE 0)
       IN /\ c.priority = (IF total > 10 THEN total ELSE 10)
          /\ (c.age_minutes = 30 /\ c.text = [pad |-> 119, pieces |-> << "?" >>])
             => c.priority = 195
          /\ (c.age_minutes = 1440
              /\ c.text = [pad |-> 0, pieces |-> << "www." >>])
             => c.priority = 70

\* C20 witness: a 30-minute-old comment of more than 100 characters whose
\* text holds two spam indicators has been scored 140, the penalty taken
\* once.
C20_Witness ==
    /\ pc = "priority_done"
    /\ SpamMatches(new_comments[1].text) = 2
    /\ new_comments[1].age_minutes = 30
    /\ TextLen(new_comments[1].text) > 100
    /\ new_comments[1].priority = 140


\* position i holds a number that only spaces separate from the unit at j
NumberUnitAt(text, i, j) ==
    /\ i < j
    /\ text[i] \in NumberTokens
    /\ UnitOf(text[j]) # "none"
    /\ \A k \in (i + 1)..(j - 1) : text[k] = " "

\* minutes in one unit
UnitMinutes(unit) ==
    CASE unit = "h" -> 60 [] unit = "d" -> 1440 [] unit = "w" -> 10080
      [] OTHER -> 1

\* C21: _parse_relative_time resolves the first number-and-unit of a text to
\* that many hours, days or weeks before now, a unit m to minutes only when
\* the text holds the word 'minute', and nothing else; when it resolves
\* nothing parse_comment_timestamp falls back to now; 5h, 3d, 2w and
\* '15 minutes ago' resolve and 10m does not.
C21_RelativeTime ==
    pc = "timestamp_done"
    => LET text == new_comments[1].texts[1]
           r == last_call.result
           firsts == {p \in (DOMAIN text) \X (DOMAIN text) :
                        /\ NumberUnitAt(text, p[1], p[2])
                        /\ \A q \in (DOMAIN text) \X (DOMAIN text) :
                              NumberUnitAt(text, q[1], q[2]) => p[1] <= q[1]}
       IN /\ firsts = {} => ~r.resolved
          /\ \A p \in firsts :
                LET unit == UnitOf(text[p[2]])
                IN IF unit = "m" /\ ~(\E k \in DOMAIN text : text[k] = "minutes")
                   THEN ~r.resolved
                   ELSE /\ r.resolved
                        /\ r.minutes = Value(text[p[1]]) * UnitMinutes(unit)
          /\ (~r.resolved /\ Len(new_comments[1].texts) = 1)
             => new_comments[1].timestamp = 0
          /\ r.resolved => new_comments[1].timestamp = r.minutes
          /\ text = << "5", "h" >> => (r.resolved /\ r.minutes = 300)
          /\ text = << "3", "D" >> => (r.resolved /\ r.minutes = 4320)
          /\ text = << "2", "w" >> => (r.resolved /\ r.minutes = 20160)
          /\ text = << "10", "m" >> => ~r.resolved
          /\ text = << "15", " ", "minutes", " ", "ago" >>
             => (r.resolved /\ r.minutes = 15)

\* C21 witness: the text '10m', alone on its element, was left unresolved
\* and the timestamp is now.
C21_Witness ==
    /\ pc = "timestamp_done"
    /\ new_comments[1].texts = << << "10", "m" >> >>
    /\ ~last_call.result.resolved
    /\ new_comments[1].timestamp = 0


\* the ASCII control characters other than tab and newline
ControlChars == {"cr", "x01"}

\* C22 as stated: sanitize_text returns at most max_length characters, none
\* of them an ASCII control character other than tab and newline, and the
\* result ends with '...' when the cleaned input is longer than max_length.
C22_Sanitized ==
    pc = "sanitize_done"
    => LET c == new_comments[1]
           NotRemoved(ch) == ~Removed(ch)
           cleaned == SelectSeq(c.text, NotRemoved)
           n == Len(c.result)
       IN /\ n <= c.max_length
          /\ \A i \in DOMAIN c.result : c.result[i] \notin ControlChars
          /\ Len(cleaned) > c.max_length
             => (n >= 3 /\ SubSeq(c.result, n - 2, n) = << ".", ".", "." >>)


\* C23: a call of the wrapper invokes the function at most max_retries
\* times; it returns the value of the first invocation that returns, which
\* is the last invocation made; when max_retries invocations have raised a
\* retryable error it raises the error of the last one, and it raises a
\* RuntimeError exactly when the function was never invoked.
C23_RetryOutcome ==
    last_call.op = "retry_with_backoff"
    => LET n == Len(last_call.invoked)
       IN /\ n <= last_call.max_retries
          /\ \A k \in 1..(n - 1) : last_call.invoked[k] = "raises"
          /\ last_call.outcome = "returned"
             => /\ last_call.value = n
                /\ last_call.invoked[n] = "returns"
          /\ (pc = "retry_done" /\ n > 0 /\ last_call.invoked[n] = "raises")
             => /\ n = last_call.max_retries
                /\ last_call.outcome = "raised"
                /\ last_call.value = n
          /\ pc = "retry_done"
             => (last_call.outcome = "runtime_error" <=> n = 0)

\* C23 witness: max_retries = 3 invocations all raised a retryable error and
\* the wrapper raised the third error.
C23_Witness ==
    /\ pc = "retry_done"
    /\ last_call.op = "retry_with_backoff"
    /\ last_call.max_retries = 3
    /\ last_call.invoked = << "raises", "raises", "raises" >>
    /\ last_call.outcome = "raised"
    /\ last_call.value = 3

RECURSIVE Pow(_, _)
Pow(base, exponent) ==
    IF exponent = 0 THEN 1 ELSE base * Pow(base, exponent - 1)

\* C24: the wrapper has slept once after every invocation that is followed
\* by another one and never after the last one, so that a finished call of
\* n invocations has slept n - 1 times; the k-th sleep lasts
\* initial_delay * backoff_factor^(k-1).
C24_Backoff ==
    last_call.op = "retry_with_backoff"
    => LET n == Len(last_call.invoked)
           sleeps == Len(last_call.slept)
       IN /\ \A k \in 1..sleeps :
                last_call.slept[k] =
                   last_call.initial_delay * Pow(last_call.backoff_factor, k - 1)
          /\ (pc = "retry_done" /\ n > 0) => sleeps + 1 = n
          /\ (pc = "retry_loop" /\ n < last_call.max_retries) => sleeps = n
          /\ (pc = "retry_loop" /\ n > 0 /\ n = last_call.max_retries)
             => sleeps + 1 = n

\* C24 witness: three invocations failed under initial_delay 2 and
\* backoff_factor 3, with sleeps of 2 and 6 and none after the third.
C24_Witness ==
    /\ pc = "retry_done"
    /\ last_call.op = "retry_with_backoff"
    /\ last_call.invoked = << "raises", "raises", "raises" >>
    /\ last_call.slept = << 2, 6 >>


\* process 2 has made no call: process 1 is the single caller
SingleCaller == callers[2] = IdleCaller

\* C25: with a single caller and no row at the start, after n completed
\* update_user_stats calls the table holds exactly one row for the user,
\* with reply_count = n, first_reply_time the time of the first call and
\* last_reply_time the time of the latest call; a call that finds a row
\* increases its reply_count by exactly 1.
C25_SingleCallerCounts ==
    /\ []((/\ pc = "upsert"
           /\ SingleCaller
           /\ user_table.base = 0
           /\ callers[1].at = "idle"
           /\ callers[1].done > 0)
          => /\ Len(user_table.rows) = 1
             /\ user_table.rows[1].user_id = StoreUser
             /\ user_table.rows[1].reply_count = callers[1].done
             /\ user_table.rows[1].first_reply_time = callers[1].first_t
             /\ user_table.rows[1].last_reply_time = callers[1].t)
    /\ [][ (/\ pc = "upsert"
            /\ SingleCaller'
            /\ callers[1].at = "write"
            /\ callers'[1].at = "idle"
            /\ RowsOf(user_table, StoreUser) # {})
           => /\ DOMAIN user_table'.rows = DOMAIN user_table.rows
              /\ \A i \in RowsOf(user_table, StoreUser) :
                    user_table'.rows[i].reply_count
                       = user_table.rows[i].reply_count + 1 ]_vars

\* C25 witness: a single caller has completed two calls at different times
\* on a table that had no row.
C25_Witness ==
    /\ pc = "upsert"
    /\ SingleCaller
    /\ user_table.base = 0
    /\ callers[1].at = "idle"
    /\ callers[1].done = 2
    /\ callers[1].t > callers[1].first_t

\* C26 as stated: whatever the order in which the requests of two processes
\* reach the store, the table never holds two rows for one user.
C26_NoDoubleInsert ==
    pc = "upsert" => Cardinality(RowsOf(user_table, StoreUser)) <= 1

\* C27: with a single process no increment is lost: after its calls the
\* reply_count of the user is the count at the start plus the number of
\* calls completed.  (That two processes can lose one is what the witness
\* reaches.)
C27_NoLossAlone ==
    (/\ pc = "upsert"
     /\ SingleCaller
     /\ callers[1].at = "idle"
     /\ callers[1].done > 0)
    => \A i \in RowsOf(user_table, StoreUser) :
          user_table.rows[i].reply_count = user_table.base + callers[1].done

\* C27 witness: two processes have each completed one call for a user whose
\* row had reply_count 1, and the row has reply_count 2, not 3.
C27_Witness ==
    /\ pc = "upsert"
    /\ user_table.base = 1
    /\ \A p \in Procs : callers[p].at = "idle" /\ callers[p].done = 1
    /\ Len(user_table.rows) = 1
    /\ user_table.rows[1].reply_count = 2

\* the comments the last scan returned
DetectedIds == {new_comments[i].id : i \in DOMAIN new_comments}

HasRow(id, status) ==
    \E i \in DOMAIN processed_comments[id] : processed_comments[id][i] = status

\* C28 as stated: a comment that has any row in processed_comments, whatever
\* its status, is never returned by smart_comment_detection and never
\* enqueued.
C28_AsStated ==
    last_call.op = "smart_comment_detection"
        => \A id \in DetectedIds \cup PendingIds :
               Len(processed_comments[id]) = 0

\* C28: when the store's reads go through, a comment that has a 'success'
\* row in processed_comments is never returned by smart_comment_detection
\* and never enqueued.
C28_SuccessNeverReturned ==
    (last_call.op = "smart_comment_detection" /\ last_call.rd)
        => \A id \in DetectedIds \cup PendingIds : ~HasRow(id, "success")

\* a scan with the reads working has passed over a comment of its view that
\* has a 'success' row then a 'failed' one, and has returned a comment whose
\* only row is 'failed'
C28_Witness ==
    /\ last_call.op = "smart_comment_detection"
    /\ last_call.rd
    /\ \E id \in last_call.view \ DetectedIds :
         processed_comments[id] = << "success", "failed" >>
    /\ \E id \in DetectedIds : processed_comments[id] = << "failed" >>

\* the rate-limit entries inside the window that ends now
EntriesInWindow ==
    get_recent_reply_count(rate_limit_log, now, RATE_LIMIT_WINDOW, TRUE, TRUE)

\* C29: in the batch loop with a comment pending and the window's cap
\* reached, the step on which check_rate_limit answers that the limit is
\* reached and the next pending comment is popped for reply_to_comment can
\* be taken: the answer does not hold the drain back.
C29_NotAGate ==
    (/\ pc = "batch"
     /\ batch_num < batch_size
     /\ comment_queue.pending # << >>
     /\ EntriesInWindow >= MAX_REPLIES_PER_WINDOW)
        => ENABLED (Pop /\ ~last_call'.result)

\* the check answered that the limit was reached, the comment was popped and
\* replied to, and the window now holds more entries than the cap
C29_Witness ==
    /\ last_call.op = "check_rate_limit"
    /\ ~last_call.result
    /\ pc = "after_reply"
    /\ reply_result
    /\ EntriesInWindow > MAX_REPLIES_PER_WINDOW

\* the step on which process_comment_queue files the comment reply_to_comment
\* has returned from
FileStep == pc = "after_reply" /\ pc' # "after_reply"

\* reply_to_comment returned at a store check that found the comment
\* already replied to successfully
ReturnedAsReplied == last_pass.cause \in {"replied", "processed"}

\* C30: when reply_to_comment returned at the idempotency check because the
\* comment was already replied to successfully, the drain does not append
\* the comment's identifier to the failed list, and the session's success
\* rate, completed / (completed + failed), is not lowered.
C30_SuccessSkip ==
    [][ (FileStep /\ ReturnedAsReplied)
          => LET done == Len(comment_queue.completed)
                 total == done + Len(comment_queue.failed)
                 done2 == Len(comment_queue'.completed)
                 total2 == done2 + Len(comment_queue'.failed)
             IN /\ comment_queue'.failed = comment_queue.failed
                /\ done2 * total >= done * total2 ]_vars

\* min(60, max(5, x)) in tenths of a second
Clamped(x) == Min(600, IF x < 50 THEN 50 ELSE x)

IntervalCalled ==
    last_call.op = "update_adaptive_scan_interval" /\ last_call.calls > 0

\* C31 as stated: the factor is 0.5 when pending is empty and the last
\* successful reply was less than 300 s before the call, 1.5 when pending is
\* empty otherwise, 0.8 when pending is non-empty.
C31_AsStated ==
    IntervalCalled =>
        last_call.adaptive_scan_interval =
            Clamped(last_call.base *
                (IF last_call.pending_was > 0 THEN 8
                 ELSE IF /\ last_call.success_was # 0
                         /\ last_call.called_at - last_call.success_was < 300
                      THEN 5 ELSE 15))

\* C31: after every update_adaptive_scan_interval call the interval is
\* min(60, max(5, base * f)) with f = 0.5 when pending is empty and
\* last_activity_time (the construction of the bot, or the last successful
\* reply since) is less than 300 s back, f = 1.5 when pending is empty and
\* it is 300 s back or more, f = 0.8 when pending is non-empty; it is
\* computed from the configured base, and every wait slept lasts between 5
\* and 60 seconds.
C31_AdaptiveInterval ==
    IntervalCalled =>
        /\ last_call.adaptive_scan_interval =
              Clamped(last_call.base *
                  (IF last_call.pending_was > 0 THEN 8
                   ELSE IF last_call.called_at - last_call.activity_was < 300
                        THEN 5 ELSE 15))
        /\ \A i \in DOMAIN last_call.slept :
              50 <= last_call.slept[i] /\ last_call.slept[i] <= 600

\* two calls have been made, the second one with pending empty more than
\* 300 s after the last activity, for a base that the limits do not hide
C31_Witness ==
    /\ IntervalCalled
    /\ last_call.calls = 2
    /\ last_call.base = 30
    /\ last_call.pending_was = 0
    /\ last_call.called_at - last_call.activity_was >= 300
    /\ last_call.slept = << 150, 450 >>

\* C32: two scans of the same unchanged comment element, neither of which
\* raised while reading it, yield the same identifier whenever they run,
\* also on different calendar days.
C32_StableId ==
    last_call.op = "get_comment_id"
        => \A i \in DOMAIN last_call.ids, j \in DOMAIN last_call.ids :
              (~last_call.raised[i] /\ ~last_call.raised[j])
                 => last_call.ids[i] = last_call.ids[j]
\* C33: an invocation that raises an error outside the retryable kinds is
\* the last one of the call: the wrapper is done, it has raised that very
\* error, and it has slept only after the retryable failures before it,
\* not after this one.
C33_NonRetryablePropagates ==
    last_call.op = "retry_with_backoff"
    => \A k \in DOMAIN last_call.invoked :
          last_call.invoked[k] = "raises_other"
             => /\ k = Len(last_call.invoked)
                /\ pc = "retry_done"
                /\ last_call.outcome = "raised_other"
                /\ last_call.value = k
                /\ Len(last_call.slept) = k - 1

\* the second of three allowed invocations raised an error outside the
\* retryable kinds, after one sleep
C33_Witness ==
    /\ last_call.op = "retry_with_backoff"
    /\ last_call.max_retries = 3
    /\ last_call.invoked = << "raises", "raises_other" >>
    /\ last_call.outcome = "raised_other"
    /\ Len(last_call.slept) = 1

\* C34: in bounded mode the number of replies completed in the run never
\* exceeds MAX_REPLIES, and in every mode the run loop has started at most
\* MAX_ITERATIONS scan iterations.
C34_RunBounded ==
    /\ ~run_continuously => Len(comment_queue.completed) <= MAX_REPLIES
    /\ iteration <= MAX_ITERATIONS

\* the attempts of the reply_to_comment call under way
Attempts == last_call.attempts

\* C35: reply_to_comment returns True, and the store holds the 'success'
\* row, the user-stats update and the rate-limit entry, only if a submission
\* strategy of the last attempt reported the reply as submitted.
C35_SuccessOnlyIfSubmitted ==
    last_call.op = "reply_to_comment"
    => /\ last_call.result = "True"
          => Attempts[Len(Attempts)].submitted
       /\ (\/ SuccessRows(processed_comments, SubmitComment.id) > 0
           \/ user_stats[SubmitComment.user_id] > 0
           \/ rate_limit_log # << >>)
          => (Attempts # << >> /\ Attempts[Len(Attempts)].submitted)

ScanStep == pc = "detect" /\ pc' # "detect" /\ cycle_start'.ok

\* the elements every view of the watched post shows: they stay on the page
StaysOnPage(idx) == \A view \in PostViews(post_url) : idx \in view

\* the comment has been handed to reply_to_comment or waits for it
HandedOver(id) ==
    id \in PendingIds \cup ProcessingIds \cup CompletedIds \cup FailedIds

\* C37: a comment that an earlier scan of the run returned, that stays on
\* the page, is not the bot's own, has non-trivial text and has not been
\* handed to reply_to_comment because it was dropped at enqueue, is returned
\* again by a later scan once nothing stands against enqueueing it (its
\* user has no comment in the queue and is below the per-user cap).
C37_DroppedDetectedAgain ==
    [][ ScanStep =>
          \A idx \in DOMAIN PageElems :
             LET e == PageElems[idx]
             IN (/\ StaysOnPage(idx)
                 /\ e.id \in session_processed_ids
                 /\ ~is_own_comment(e.author, e.user_id, bot_user_id)
                 /\ ~TextTrivial(e.text)
                 /\ ~HandedOver(e.id)
                 /\ Len(processed_comments[e.id]) = 0
                 /\ ~is_user_in_queue(comment_queue, e.user_id)
                 /\ can_reply_to_user(user_stats, e.user_id, TRUE))
                => \E i \in DOMAIN new_comments' : new_comments'[i].id = e.id
      ]_vars

\* the step on which process_comment_queue returns to run()
ProcessReturnStep == pc = "batch" /\ pc' # "batch" /\ pc' # "reply"

\* C38: a process_comment_queue call returns only after it has taken every
\* comment that was pending when it started, so pending is empty when the
\* run loop is past the drain (where the adaptive interval is updated and
\* the loop sleeps), and at most one sub-iteration of the drain has work.
C38_DrainEmptiesPending ==
    /\ [][ (ProcessReturnStep /\ pc' \in {"drain", "post"})
             => (batch_num = batch_size /\ comment_queue.pending = << >>)
         ]_vars
    /\ [](pc = "post" => comment_queue.pending = << >>)
    /\ [](queue_iter <= 1)

\* the drain is over after one sub-iteration that attempted two comments
C38_Witness ==
    /\ pc = "post"
    /\ queue_iter = 1
    /\ batch_size = 2
    /\ batch_num = 2
    /\ comment_queue.pending = << >>

\* C39: as long as every store call of the run has gone through, no user's
\* persisted reply_count exceeds MAX_REPLIES_PER_USER (no user's did when
\* the run started).
C39_UserCapKept ==
    cycle_start.store_ok
        => \A u \in PageUsers : user_stats[u] <= MAX_REPLIES_PER_USER

\* with the store reachable throughout, a reply has taken a user from one
\* below the cap to the cap
C39_Witness ==
    /\ cycle_start.store_ok
    /\ pc = "after_reply"
    /\ reply_result
    /\ user_stats[Current.user_id] = MAX_REPLIES_PER_USER
    /\ cycle_start.user_stats[Current.user_id] < MAX_REPLIES_PER_USER

\* the comments filed so far, in completed or in failed
Filed == comment_queue.completed \o comment_queue.failed

\* C40: no comment identifier occurs more than once in completed followed
\* by failed, and len(completed) + len(failed) counts the comments popped
\* and finished: it grows by one on the step that files the comment
\* reply_to_comment has returned from, and on no other step.
C40_FiledOnce ==
    /\ [](\A i, j \in DOMAIN Filed : Filed[i] = Filed[j] => i = j)
    /\ [][ Len(Filed') =
              Len(Filed) + (IF FileStep /\ pc' = "batch" THEN 1 ELSE 0) ]_vars

====
